---- MODULE Spec2Model ----
(***************************************************************************)
(* Model of the rule-based training engine of AI-Friendly-Brief:           *)
(*   backend/ai/training_optimizer.py   TrainingOptimizer                  *)
(*   backend/models/performance.py      PerformanceBaseline                *)
(*   backend/api/performance.py         calculate_improvement              *)
(*   backend/api/training.py            POST /generate                     *)
(*                                                                         *)
(* Numbers.  Python floats are modelled as scaled integers:                *)
(*   difficulty scores in tenths (round(x, 1)),                            *)
(*   percentages in hundredths (round(x, 2)),                              *)
(*   multipliers in tenths or hundredths as noted at each table.           *)
(* A Python dict with optional keys is a record plus the set of its keys   *)
(* (field "keys"); a missing key raises KeyError on d[k].                  *)
(***************************************************************************)
EXTENDS Integers, Sequences, FiniteSets, TLC

VARIABLES
    profile,    \* user_profile of the latest generate_training_plan call
    week,       \* current_week of that call (0 models JSON null / None)
    history,    \* performance_history of that call
    outcome,    \* "idle", "ok" (a plan was returned) or "error" (it raised)
    result,     \* <<plan>> when the call returned, <<>> otherwise
    again,      \* <<plan>> of a repeated call with the same arguments
    now,        \* datetime.utcnow(), in clock ticks
    dbPlans,    \* rows of training_plans
    dbSessions, \* rows of training_sessions
    resp,       \* HTTP status of the latest request (0: none yet)
    baseline,   \* one PerformanceBaseline row
    update,     \* latest update_current_best call: its arguments
    progress,   \* latest calculate_target_progress call: arguments and value
    improvement, \* latest calculate_improvement call: arguments and value
    trend,      \* latest analyze_performance_trend call: tests and result
    load,       \* latest optimize_exercise_load call: arguments and result
    prediction, \* latest predict_performance_improvement call, likewise
    dbTests,    \* rows of performances (one user)
    dbUser,     \* the users row of that user; None when it does not exist
    dbBaselines, \* rows of performance_baselines
    pending,    \* record-test requests between their queries and their commit
    report,     \* latest run of the report analytics: inputs and results
    tracking,   \* execution columns of the rows of training_sessions
    lastRequest \* latest start or complete request: kind and session id

vars == <<profile, week, history, outcome, result, again, now,
          dbPlans, dbSessions, resp, baseline, update, progress, improvement,
          trend, load, prediction, dbTests, dbUser, dbBaselines,
          pending, report, tracking, lastRequest>>

callVars == <<profile, week, history, outcome, result, again, now>>
apiVars == <<dbPlans, dbSessions, resp>>
analyticsVars == <<baseline, update, progress, improvement>>
loadVars == <<load, prediction, dbTests>>
sessionVars == <<tracking, lastRequest>>
recordVars == <<dbUser, dbBaselines, pending, report, sessionVars>>
serviceVars == <<trend, loadVars, recordVars>>

(***************************************************************************)
(* Bounds                                                                  *)
(***************************************************************************)
MaxWeek == 22
MaxFreq == 7
MaxClock == 2
MaxPlans == 2
MaxValue == 4
MaxTests == 3
MaxDate == 2
MaxMeasure == 7
MaxTrendLen == 3
MaxTrendValue == 3
MaxHistory == 3
MaxAhead == 4
MaxReport == 2

(***************************************************************************)
(* Generic helpers                                                         *)
(***************************************************************************)
Min(a, b) == IF a <= b THEN a ELSE b
Max(a, b) == IF a >= b THEN a ELSE b
Abs(a) == IF a < 0 THEN -a ELSE a

\* Python slice seq[:n]
Take(seq, n) == SubSeq(seq, 1, Min(n, Len(seq)))

\* the quotient rounded down instead of to the nearest integer
RoundHalfEven_Floor(num, den) == num \div den

\* round(num/den, k) on the exact quotient, den > 0, result in units of 10^-k
\* already folded into num: nearest integer to num/den, ties to even
\* (Python 3 round()).
RoundHalfEven(num, den) ==
    LET q == num \div den
        r == num - q * den
    IN  IF 2 * r > den THEN q + 1
        ELSE IF 2 * r < den THEN q
        ELSE IF q % 2 = 0 THEN q ELSE q + 1

(***************************************************************************)
(* Domains of the inputs                                                   *)
(***************************************************************************)
\* models/user.py SportType
SportTypes == {"football", "basketball", "tennis", "running", "cycling",
               "swimming", "volleyball", "badminton", "other"}

\* models/user.py FitnessLevel
FitnessLevels == {"beginner", "intermediate", "advanced", "elite"}

ProfileKeys == {"sport_type", "fitness_level", "training_frequency",
                "years_experience", "age"}
RequiredKeys == {"sport_type", "fitness_level", "training_frequency"}

Has(p, k) == k \in p.keys

\* dict.get(k, default)
Get(p, k, default) == IF Has(p, k) THEN p[k] ELSE default

Weeks == 1..MaxWeek
Frequencies == 0..MaxFreq
Ages == {22, 40}
Experiences == {6}
Histories == {<<>>, <<12, 10>>}

FullProfiles ==
    [keys : {ProfileKeys}, sport_type : SportTypes,
     fitness_level : FitnessLevels, training_frequency : Frequencies,
     years_experience : Experiences, age : Ages]

NoProfile ==
    [keys |-> {}, sport_type |-> "", fitness_level |-> "",
     training_frequency |-> 0, years_experience |-> 0, age |-> 0]

(***************************************************************************)
(* TrainingOptimizer._analyze_user_profile                                 *)
(***************************************************************************)
AnalyzeUserProfile(p) ==
    LET experience == Get(p, "years_experience", 0)
        frequency == Get(p, "training_frequency", 3)
        age == Get(p, "age", 25)
    IN  [primary_weakness |-> "none",
         training_capacity |->
            IF experience >= 5 /\ frequency >= 5 THEN "high"
            ELSE IF experience <= 2 \/ frequency <= 2 THEN "low"
            ELSE "moderate",
         recovery_needs |->
            IF age > 35 THEN "extended"
            ELSE IF age < 25 THEN "quick" ELSE "standard"]

(***************************************************************************)
(* TrainingOptimizer._determine_training_focus                             *)
(***************************************************************************)
base_focuses ==
    [c \in 0..3 |->
        CASE c = 0 -> [primary_type |-> "strength", secondary_type |-> "power"]
          [] c = 1 -> [primary_type |-> "hiit", secondary_type |-> "agility"]
          [] c = 2 -> [primary_type |-> "endurance",
                       secondary_type |-> "sport_specific"]
          [] c = 3 -> [primary_type |-> "agility",
                       secondary_type |-> "flexibility"]]

\* multipliers in tenths, as a set of <<dimension, multiplier>> pairs
sport_adjustments(sport) ==
    CASE sport = "football" ->
            {<<"strength", 12>>, <<"agility", 13>>, <<"power", 11>>}
      [] sport = "basketball" ->
            {<<"agility", 13>>, <<"hiit", 12>>, <<"power", 11>>}
      [] sport = "tennis" ->
            {<<"agility", 14>>, <<"endurance", 11>>, <<"flexibility", 12>>}
      [] sport = "running" ->
            {<<"endurance", 14>>, <<"hiit", 12>>, <<"strength", 9>>}
      [] sport = "cycling" ->
            {<<"endurance", 13>>, <<"strength", 11>>, <<"hiit", 11>>}
      [] sport = "swimming" ->
            {<<"endurance", 13>>, <<"flexibility", 12>>, <<"strength", 11>>}
      [] OTHER -> {}

\* a focus selection in which the sport table promotes the secondary type
\* when the sport weights it above the primary one
DetermineTrainingFocus_SportPromotes(sport, w, user_analysis) ==
    LET week_cycle == (w - 1) % 4
        focus == base_focuses[week_cycle]
        adj == sport_adjustments(sport)
        Weight(t) == IF \E a \in adj : a[1] = t
                     THEN (CHOOSE a \in adj : a[1] = t)[2] ELSE 10
        swap == Weight(focus.secondary_type) > Weight(focus.primary_type)
    IN  [primary_type |->
            IF swap THEN focus.secondary_type ELSE focus.primary_type,
         secondary_type |->
            IF swap THEN focus.primary_type ELSE focus.secondary_type,
         sport_adjustments |-> adj]

DetermineTrainingFocus(sport, w, user_analysis) ==
    LET week_cycle == (w - 1) % 4
        focus == base_focuses[week_cycle]
    IN  [primary_type |-> focus.primary_type,
         secondary_type |-> focus.secondary_type,
         sport_adjustments |-> sport_adjustments(sport)]

(***************************************************************************)
(* TrainingOptimizer._select_exercises                                     *)
(***************************************************************************)
LevelTypes == {"strength", "hiit"}
AllTypes == {"agility", "endurance"}

exercise_db_level(type, level) ==
    CASE type = "strength" /\ level = "beginner" ->
            <<"bodyweight_squats", "push_ups", "planks", "lunges">>
      [] type = "strength" /\ level = "intermediate" ->
            <<"goblet_squats", "deadlifts", "bench_press", "rows">>
      [] type = "strength" /\ level = "advanced" ->
            <<"back_squats", "deadlifts", "bench_press", "clean_pulls">>
      [] type = "strength" /\ level = "elite" ->
            <<"back_squats", "deadlifts", "power_cleans", "snatches">>
      [] type = "hiit" /\ level = "beginner" ->
            <<"burpees", "mountain_climbers", "jumping_jacks", "high_knees">>
      [] type = "hiit" /\ level = "intermediate" ->
            <<"box_jumps", "battle_ropes", "kettlebell_swings", "sprints">>
      [] type = "hiit" /\ level = "advanced" ->
            <<"plyometric_jumps", "medicine_ball_slams", "sprint_intervals">>
      [] type = "hiit" /\ level = "elite" ->
            <<"depth_jumps", "reactive_jumps", "olympic_lift_complexes">>
      [] OTHER -> <<>>

exercise_db_all(type) ==
    CASE type = "agility" ->
            <<"ladder_drills", "t_test", "cone_drills", "5_10_5_drill",
              "reactive_drills">>
      [] type = "endurance" ->
            <<"tempo_runs", "bike_intervals", "swimming_sets",
              "rowing_intervals">>
      [] OTHER -> <<>>

SportSpecificSports == {"football", "basketball", "tennis", "running",
                        "cycling", "swimming"}

exercise_db_sport(sport) ==
    CASE sport = "football" ->
            <<"40_yard_dash", "position_drills", "tackling_drills">>
      [] sport = "basketball" ->
            <<"suicide_drills", "defensive_slides", "shooting_drills">>
      [] sport = "tennis" ->
            <<"court_sprints", "serve_practice", "volley_drills">>
      [] sport = "running" ->
            <<"interval_training", "hill_repeats", "tempo_runs">>
      [] sport = "cycling" ->
            <<"hill_climbs", "sprint_intervals", "time_trials">>
      [] sport = "swimming" ->
            <<"stroke_technique", "flip_turns", "breathing_drills">>
      [] OTHER -> <<>>

\* a selection that puts the sport-specific exercises first
SelectExercises_SportFirst(p, training_focus) ==
    LET sport == p.sport_type
        level == p.fitness_level
        primary_type == training_focus.primary_type
        primary ==
            IF primary_type \in LevelTypes /\ level \in FitnessLevels
            THEN Take(exercise_db_level(primary_type, level), 3)
            ELSE IF primary_type \in AllTypes
            THEN Take(exercise_db_all(primary_type), 3)
            ELSE <<>>
        specific ==
            IF sport \in SportSpecificSports
            THEN Take(exercise_db_sport(sport), 2)
            ELSE <<>>
    IN  Take(specific \o primary, 6)

SelectExercises(p, training_focus) ==
    LET sport == p.sport_type
        level == p.fitness_level
        primary_type == training_focus.primary_type
        primary ==
            IF primary_type \in LevelTypes /\ level \in FitnessLevels
            THEN Take(exercise_db_level(primary_type, level), 3)
            ELSE IF primary_type \in AllTypes
            THEN Take(exercise_db_all(primary_type), 3)
            ELSE <<>>
        specific ==
            IF sport \in SportSpecificSports
            THEN Take(exercise_db_sport(sport), 2)
            ELSE <<>>
    IN  Take(primary \o specific, 6)

(***************************************************************************)
(* TrainingOptimizer._optimize_training_parameters                         *)
(***************************************************************************)
base_duration == 45
base_difficulty == 5

\* level_adjustments, both multipliers in tenths
level_adjustments(level) ==
    CASE level = "beginner" -> [duration |-> 8, difficulty |-> 7]
      [] level = "advanced" -> [duration |-> 12, difficulty |-> 12]
      [] level = "elite" -> [duration |-> 14, difficulty |-> 14]
      [] OTHER -> [duration |-> 10, difficulty |-> 10]

\* int(base_duration * adjustments['duration']): the binary64 product
\* 45 * 1.4 is 62.99999999999999, which int() truncates to 62; the other
\* three products are exact.
Duration(level) ==
    LET exact == (base_duration * level_adjustments(level).duration) \div 10
    IN  IF level_adjustments(level).duration = 14 THEN exact - 1 ELSE exact

\* Sign of (binary64 value - exact value) of the difficulty product where the
\* exact value is a decimal tie k.x5; 0 where the product is exact.
FloatErrSign(level, w) ==
    CASE level = "beginner" /\ w = 3 -> 1
      [] level = "beginner" /\ w = 7 -> -1
      [] level = "elite" /\ w \in {2, 8, 10} -> 1
      [] level = "elite" /\ w = 4 -> -1
      [] OTHER -> 0

\* round(x, 1) of the float whose exact value is num/den tenths
RoundFloat(num, den, sign) ==
    LET q == num \div den
        r == num - q * den
    IN  IF 2 * r = den /\ sign # 0
        THEN (IF sign > 0 THEN q + 1 ELSE q)
        ELSE RoundHalfEven(num, den)

\* difficulty after the level adjustment, in tenths: min(10, 5 * adj)
ClampedBaseDifficulty(level) ==
    Min(100, base_difficulty * level_adjustments(level).difficulty)

\* week_progression in hundredths: 1 + (week - 1) * 0.05
WeekProgression(w) == 100 + (w - 1) * 5

\* progressive overload capped at +100% instead of +50%
DifficultyScore_CapDoubled(level, w) ==
    RoundFloat(ClampedBaseDifficulty(level) * Min(WeekProgression(w), 200),
               100, FloatErrSign(level, w))

\* difficulty_score in tenths
DifficultyScore(level, w) ==
    RoundFloat(ClampedBaseDifficulty(level) * Min(WeekProgression(w), 150),
               100, FloatErrSign(level, w))

OptimizeTrainingParameters(p, hist, w) ==
    LET level == Get(p, "fitness_level", "intermediate")
    IN  [total_duration |-> Duration(level),
         difficulty_score |-> DifficultyScore(level, w),
         week_progression |-> WeekProgression(w)]

(***************************************************************************)
(* TrainingOptimizer._get_daily_focus and _create_weekly_plan              *)
(***************************************************************************)
GetDailyFocus(day, frequency) ==
    LET focuses ==
            IF frequency <= 3
            THEN <<"Full Body", "Upper Body", "Lower Body">>
            ELSE IF frequency <= 5
            THEN <<"Power", "Strength", "Endurance", "Agility", "Recovery">>
            ELSE <<"Power", "Strength", "Endurance", "Agility",
                   "Sport-Specific", "Recovery", "Active Recovery">>
    IN  focuses[((day - 1) % Len(focuses)) + 1]

\* range(1, frequency) instead of range(1, frequency + 1)
CreateWeeklyPlan_OffByOne(exercises, training_params, frequency) ==
    [day \in 1..(frequency - 1) |->
        [session_number |-> day,
         session_name |-> <<"Training Day", day>>,
         primary_focus |-> GetDailyFocus(day, frequency),
         exercises |-> exercises,
         warm_up_duration |-> 10,
         main_duration |-> training_params.total_duration - 20,
         cool_down_duration |-> 10,
         difficulty_level |-> training_params.difficulty_score]]

CreateWeeklyPlan(exercises, training_params, frequency) ==
    [day \in 1..frequency |->
        [session_number |-> day,
         session_name |-> <<"Training Day", day>>,
         primary_focus |-> GetDailyFocus(day, frequency),
         exercises |-> exercises,
         warm_up_duration |-> 10,
         main_duration |-> training_params.total_duration - 20,
         cool_down_duration |-> 10,
         difficulty_level |-> training_params.difficulty_score]]

(***************************************************************************)
(* TrainingOptimizer._generate_target_adaptations (weights in tenths)      *)
(***************************************************************************)
GenerateTargetAdaptations(p, training_focus, w) ==
    LET t == training_focus.primary_type
    IN  [muscle_fiber_types |->
            [type_2_activation |->
                IF t = "strength" THEN 9 ELSE IF t = "hiit" THEN 8 ELSE 7,
             type_1_endurance |-> 3],
         energy_systems |->
            [phosphocreatine |-> 4,
             glycolytic |-> IF t = "hiit" THEN 7 ELSE 4,
             oxidative |-> IF t = "endurance" THEN 6 ELSE 2],
         neuromuscular |->
            [power_output |-> IF t = "strength" THEN 9 ELSE 8,
             coordination |-> 6,
             reaction_time |-> 5],
         mitochondrial |->
            [density_increase |-> IF t = "endurance" THEN 8 ELSE 3,
             enzyme_activity |-> 4]]

(***************************************************************************)
(* TrainingOptimizer.generate_training_plan                                *)
(* Returns <<plan>>, or <<>> when the body raises: a KeyError on a missing *)
(* required key, a TypeError on a week that is None (modelled as week 0).  *)
(***************************************************************************)
NullWeek == 0

\* training_frequency read with a default instead of user_profile[...]
Raises_FrequencyDefaulted(p, w) ==
    ~ ({"sport_type", "fitness_level"} \subseteq p.keys) \/ w = NullWeek

Raises(p, w) == ~ (RequiredKeys \subseteq p.keys) \/ w = NullWeek

\* the dict returned at the end of the try block
PlanRecord(p, w, hist, clock) ==
    LET user_analysis == AnalyzeUserProfile(p)
        training_focus ==
            DetermineTrainingFocus(p.sport_type, w, user_analysis)
        exercises == SelectExercises(p, training_focus)
        training_params == OptimizeTrainingParameters(p, hist, w)
        weekly_plan ==
            CreateWeeklyPlan(exercises, training_params, p.training_frequency)
        target_adaptations == GenerateTargetAdaptations(p, training_focus, w)
    IN  [plan_name |-> <<"Week", w, training_focus.primary_type>>,
         week_number |-> w,
         training_type |-> training_focus.primary_type,
         target_adaptations |-> target_adaptations,
         expected_duration |-> training_params.total_duration,
         difficulty_score |-> training_params.difficulty_score,
         sessions |-> weekly_plan,
         model_version |-> "1.0",
         generated_at |-> clock]

\* a plan whose name carries the generation time
GenerateTrainingPlan_StampedName(p, w, hist, clock) ==
    IF Raises(p, w)
    THEN <<>>
    ELSE << [PlanRecord(p, w, hist, clock) EXCEPT
                !.plan_name = <<"Week", w + clock, @[3]>>] >>

GenerateTrainingPlan(p, w, hist, clock) ==
    IF Raises(p, w) THEN <<>> ELSE << PlanRecord(p, w, hist, clock) >>

(***************************************************************************)
(* State after construction                                                *)
(***************************************************************************)
None == <<>>
Some(v) == <<v>>

\* Python truthiness of an optional number: None and 0 are falsy
Falsy(x) == x = None \/ x[1] = 0

NoBaseline ==
    [test_type |-> "", baseline_value |-> 0,
     short_term_target |-> None, medium_term_target |-> None,
     long_term_target |-> None,
     current_best |-> None, current_best_date |-> None, tests_count |-> 0]

NoUpdate == [called |-> FALSE, new_value |-> 0, test_date |-> 0]
NoProgress == [called |-> FALSE, target_type |-> "", value |-> 0]
NoImprovement ==
    [called |-> FALSE, current |-> 0, previous |-> 0, test_type |-> "",
     value |-> 0]

\* the parts of the state a specification does not use stay as constructed
IdlePlan ==
    /\ outcome = "idle"
    /\ result = <<>>
    /\ again = <<>>
    /\ now = 0

IdleApi ==
    /\ dbPlans = <<>>
    /\ dbSessions = <<>>
    /\ resp = 0

IdleAnalytics ==
    /\ baseline = NoBaseline
    /\ update = NoUpdate
    /\ progress = NoProgress
    /\ improvement = NoImprovement

NoTrend == [called |-> FALSE, tests |-> <<>>, trend |-> "", slope |-> 0]

NoLoad ==
    [called |-> FALSE, exercise_type |-> "", user_profile |-> NoProfile,
     performance_history |-> <<>>, outcome |-> "idle", value |-> <<>>]

IdleTrend == trend = NoTrend

NoPrediction ==
    [called |-> FALSE, user_profile |-> NoProfile,
     training_plan |-> [keys |-> {}, training_type |-> ""],
     weeks_ahead |-> 0, outcome |-> "idle", value |-> <<>>]

IdleLoad ==
    /\ load = NoLoad
    /\ prediction = NoPrediction
    /\ dbTests = <<>>

\* the two request handlers that may run at the same time
Handlers == {1, 2}

NoPending == [h \in Handlers |-> None]

NoReport == [called |-> FALSE, sessions |-> <<>>, tests |-> <<>>,
             effectiveness |-> <<>>, metrics |-> <<>>]

NoRequest == [kind |-> "", session_id |-> 0]

IdleSession ==
    /\ tracking = <<>>
    /\ lastRequest = NoRequest

IdleRecord ==
    /\ dbUser = None
    /\ dbBaselines = <<>>
    /\ pending = NoPending
    /\ report = NoReport
    /\ IdleSession

IdleService ==
    /\ IdleTrend
    /\ IdleLoad
    /\ IdleRecord

(***************************************************************************)
(* Plan generation: a caller holds the arguments (profile, week, history), *)
(* invokes generate_training_plan, time passes, and the caller may invoke  *)
(* it again with the very same arguments.                                  *)
(***************************************************************************)
Init ==
    /\ profile \in FullProfiles
    /\ week \in Weeks
    /\ history \in Histories
    /\ IdlePlan
    /\ IdleApi
    /\ IdleService
    /\ IdleAnalytics

Outcome(r) == IF r = <<>> THEN "error" ELSE "ok"

GeneratePlan ==
    /\ outcome = "idle"
    /\ result' = GenerateTrainingPlan(profile, week, history, now)
    /\ outcome' = Outcome(result')
    /\ UNCHANGED <<profile, week, history, again, now, apiVars,
                   analyticsVars, serviceVars>>

GenerateAgain ==
    /\ outcome = "ok"
    /\ again = <<>>
    /\ again' = GenerateTrainingPlan(profile, week, history, now)
    /\ UNCHANGED <<profile, week, history, outcome, result, now, apiVars,
                   analyticsVars, serviceVars>>

\* the wall clock advances before, between and after the calls
Tick ==
    /\ now < MaxClock
    /\ now' = now + 1
    /\ UNCHANGED <<profile, week, history, outcome, result, again, apiVars,
                   analyticsVars, serviceVars>>

Next == GeneratePlan \/ GenerateAgain \/ Tick

Spec == Init /\ [][Next]_vars

(***************************************************************************)
(* POST /generate (api/training.py generate_training_plan) next to direct  *)
(* calls of the optimizer with profiles that may lack keys.                *)
(***************************************************************************)
\* rows of the users table: every column read here is NOT NULL
ApiSports == {"football", "other"}
ApiLevels == {"elite"}
ApiFrequencies == {1, 2}
ApiUsers ==
    [sport_type : ApiSports, fitness_level : ApiLevels,
     training_frequency : ApiFrequencies, years_experience : {6},
     age : {22}]

\* week_number of the request body: a number, or null
ApiWeeks == {1, 2, NullWeek}

\* the user_profile dict the endpoint builds: every key is present
UserProfile(user) ==
    [keys |-> ProfileKeys, sport_type |-> user.sport_type,
     fitness_level |-> user.fitness_level,
     training_frequency |-> user.training_frequency,
     years_experience |-> user.years_experience, age |-> user.age]

\* a dict holding only the keys in K
Restrict(p, K) ==
    [keys |-> K,
     sport_type |-> IF "sport_type" \in K THEN p.sport_type ELSE "",
     fitness_level |-> IF "fitness_level" \in K THEN p.fitness_level ELSE "",
     training_frequency |->
        IF "training_frequency" \in K THEN p.training_frequency ELSE 0,
     years_experience |->
        IF "years_experience" \in K THEN p.years_experience ELSE 0,
     age |-> IF "age" \in K THEN p.age ELSE 0]

DirectProfiles ==
    {Restrict(UserProfile(u), K \cup {"years_experience", "age"}) :
        u \in ApiUsers, K \in SUBSET RequiredKeys}

\* the TrainingPlan row built from ai_plan
PlanRow(id, ai_plan, w) ==
    [id |-> id,
     name |-> ai_plan.plan_name,
     week_number |-> w,
     training_type |-> ai_plan.training_type,
     target_adaptations |-> ai_plan.target_adaptations,
     expected_duration |-> ai_plan.expected_duration,
     difficulty_score |-> ai_plan.difficulty_score,
     model_version |-> ai_plan.model_version]

\* the TrainingSession rows built from ai_plan['sessions']
SessionRows(plan_id, ai_plan) ==
    [i \in 1..Len(ai_plan.sessions) |->
        [plan_id |-> plan_id,
         session_name |-> ai_plan.sessions[i].session_name,
         session_number |-> ai_plan.sessions[i].session_number,
         primary_focus |-> ai_plan.sessions[i].primary_focus,
         warm_up_duration |-> ai_plan.sessions[i].warm_up_duration,
         main_duration |-> ai_plan.sessions[i].main_duration,
         cool_down_duration |-> ai_plan.sessions[i].cool_down_duration]]

InitApi ==
    /\ profile = NoProfile
    /\ week = 1
    /\ history = <<>>
    /\ IdlePlan
    /\ IdleApi
    /\ IdleService
    /\ IdleAnalytics

\* the request of a token whose user row no longer exists
ApiGenerateNoUser ==
    /\ resp' = 404
    /\ UNCHANGED <<callVars, dbPlans, dbSessions, analyticsVars, serviceVars>>

ApiGenerate ==
    \E user \in ApiUsers, w \in ApiWeeks, hist \in {<<>>} :
        LET ai_plan == GenerateTrainingPlan(UserProfile(user), w, hist, now)
            id == Len(dbPlans) + 1
        IN  /\ Len(dbPlans) < MaxPlans
            /\ profile' = UserProfile(user)
            /\ week' = w
            /\ history' = hist
            /\ result' = ai_plan
            /\ outcome' = Outcome(ai_plan)
            /\ again' = <<>>
            /\ IF ai_plan = <<>>
               THEN \* except: rollback, 500
                    /\ resp' = 500
                    /\ UNCHANGED <<dbPlans, dbSessions>>
               ELSE /\ dbPlans' = Append(dbPlans, PlanRow(id, ai_plan[1], w))
                    /\ dbSessions' = dbSessions \o SessionRows(id, ai_plan[1])
                    /\ resp' = 201
            /\ UNCHANGED <<now, analyticsVars, serviceVars>>

\* generate_training_plan called by other code with an arbitrary dict
DirectGenerate ==
    \E p \in DirectProfiles, w \in ApiWeeks, hist \in {<<>>} :
        /\ profile' = p
        /\ week' = w
        /\ history' = hist
        /\ result' = GenerateTrainingPlan(p, w, hist, now)
        /\ outcome' = Outcome(result')
        /\ again' = <<>>
        /\ UNCHANGED <<now, apiVars, analyticsVars, serviceVars>>

NextApi == ApiGenerateNoUser \/ ApiGenerate \/ DirectGenerate

SpecApi == InitApi /\ [][NextApi]_vars

(***************************************************************************)
(* models/performance.py PerformanceBaseline                               *)
(* Values are floats in the code; the model draws them from 0..MaxValue.   *)
(* Percentages are in hundredths.                                          *)
(***************************************************************************)
\* models/performance.py TestType
TestTypes == {"vertical_jump", "sprint_20m", "t_test", "heart_rate_recovery",
              "vo2_max", "flexibility", "strength_1rm", "endurance",
              "sport_specific"}

\* the list both PerformanceBaseline methods build
time_based_metrics == {"sprint_20m", "t_test"}

\* update_current_best with <= and >= in place of < and >
UpdateCurrentBest_NotStrict(b, new_value, test_date) ==
    LET should_update ==
            IF b.current_best = None THEN TRUE
            ELSE IF b.test_type \in time_based_metrics
            THEN new_value <= b.current_best[1]
            ELSE new_value >= b.current_best[1]
    IN  [b EXCEPT
            !.current_best = IF should_update THEN Some(new_value) ELSE @,
            !.current_best_date = IF should_update THEN Some(test_date) ELSE @,
            !.tests_count = @ + 1]

UpdateCurrentBest(b, new_value, test_date) ==
    LET should_update ==
            IF b.current_best = None THEN TRUE
            ELSE IF b.test_type \in time_based_metrics
            THEN new_value < b.current_best[1]
            ELSE new_value > b.current_best[1]
    IN  [b EXCEPT
            !.current_best = IF should_update THEN Some(new_value) ELSE @,
            !.current_best_date = IF should_update THEN Some(test_date) ELSE @,
            !.tests_count = @ + 1]

\* calculate_current_improvement, in hundredths of a percent; None when the
\* division by baseline_value raises ZeroDivisionError
CalculateCurrentImprovement(b) ==
    IF Falsy(b.current_best) THEN Some(0)
    ELSE IF b.baseline_value = 0 THEN None
    ELSE IF b.test_type \in time_based_metrics
    THEN Some(RoundHalfEven((b.baseline_value - b.current_best[1]) * 10000,
                            b.baseline_value))
    ELSE Some(RoundHalfEven((b.current_best[1] - b.baseline_value) * 10000,
                            b.baseline_value))

TargetTypes == {"short_term", "medium_term", "long_term"}

\* targets.get(target_type)
TargetOf(b, target_type) ==
    CASE target_type = "short_term" -> b.short_term_target
      [] target_type = "medium_term" -> b.medium_term_target
      [] target_type = "long_term" -> b.long_term_target
      [] OTHER -> None

\* calculate_target_progress, in hundredths of a percent
CalculateTargetProgress(b, target_type) ==
    LET target == TargetOf(b, target_type)
    IN  IF Falsy(target) \/ Falsy(b.current_best) THEN 0
        ELSE
            LET total_improvement_needed == Abs(target[1] - b.baseline_value)
                current_improvement ==
                    Abs(b.current_best[1] - b.baseline_value)
            IN  IF total_improvement_needed = 0 THEN 10000
                ELSE Min(RoundHalfEven(current_improvement * 10000,
                                       total_improvement_needed), 10000)

Values == 0..MaxValue
Dates == 1..MaxDate
BaselineTestTypes == {"vertical_jump", "sprint_20m", "t_test",
                      "heart_rate_recovery"}
ProgressTypes == TargetTypes \cup {"weekly"}

\* a baseline as record_performance_test leaves it after the first test of
\* its key: no current best yet, tests_count at its column default
InitBaseline ==
    /\ baseline \in
        [test_type : BaselineTestTypes, baseline_value : Values,
         short_term_target : {None} \cup {Some(v) : v \in Values},
         medium_term_target : {None, Some(2)},
         long_term_target : {None},
         current_best : {None}, current_best_date : {None},
         tests_count : {0}]
    /\ update = NoUpdate
    /\ progress = NoProgress
    /\ improvement = NoImprovement
    /\ profile = NoProfile
    /\ week = 1
    /\ history = <<>>
    /\ IdlePlan
    /\ IdleApi
    /\ IdleService

\* a later test of the key: record_performance_test calls update_current_best
UpdateBest ==
    \E v \in Values, d \in Dates :
        /\ baseline.tests_count < MaxTests
        /\ baseline' = UpdateCurrentBest(baseline, v, d)
        /\ update' = [called |-> TRUE, new_value |-> v, test_date |-> d]
        /\ progress' = NoProgress
        /\ UNCHANGED <<callVars, apiVars, serviceVars, improvement>>

TargetProgress ==
    \E tt \in ProgressTypes :
        /\ progress' = [called |-> TRUE, target_type |-> tt,
                        value |-> CalculateTargetProgress(baseline, tt)]
        /\ UNCHANGED <<callVars, apiVars, serviceVars, baseline, update, improvement>>

NextBaseline == UpdateBest \/ TargetProgress

SpecBaseline == InitBaseline /\ [][NextBaseline]_vars

(***************************************************************************)
(* api/performance.py calculate_improvement, in hundredths of a percent    *)
(***************************************************************************)
time_based_tests == {"sprint_20m", "t_test", "heart_rate_recovery"}

\* the percentage truncated to two decimals instead of rounded
CalculateImprovement_Truncated(current_value, previous_value, test_type) ==
    IF previous_value = 0 THEN 0
    ELSE IF test_type \in time_based_tests
    THEN ((previous_value - current_value) * 10000) \div previous_value
    ELSE ((current_value - previous_value) * 10000) \div previous_value

CalculateImprovement(current_value, previous_value, test_type) ==
    IF previous_value = 0 THEN 0
    ELSE IF test_type \in time_based_tests
    THEN RoundHalfEven((previous_value - current_value) * 10000,
                       previous_value)
    ELSE RoundHalfEven((current_value - previous_value) * 10000,
                       previous_value)

Measures == 0..MaxMeasure

InitImprovement ==
    /\ improvement \in
        [called : {FALSE}, current : Measures, previous : Measures,
         test_type : TestTypes, value : {0}]
    /\ baseline = NoBaseline
    /\ update = NoUpdate
    /\ progress = NoProgress
    /\ profile = NoProfile
    /\ week = 1
    /\ history = <<>>
    /\ IdlePlan
    /\ IdleApi
    /\ IdleService

Improve ==
    /\ ~ improvement.called
    /\ improvement' =
        [improvement EXCEPT
            !.called = TRUE,
            !.value = CalculateImprovement(improvement.current,
                                           improvement.previous,
                                           improvement.test_type)]
    /\ UNCHANGED <<callVars, apiVars, serviceVars, baseline, update, progress>>

NextImprovement == Improve

SpecImprovement == InitImprovement /\ [][NextImprovement]_vars

(***************************************************************************)
(* api/performance.py analyze_performance_trend.  A test is a record        *)
(* [test_date, primary_value]; primary values are in sixteenths, which      *)
(* binary64 holds exactly, so the sums and the comparisons with 0.1 are the *)
(* exact ones; the slope is returned in thousandths.                        *)
(***************************************************************************)
RECURSIVE SumSeq(_)
SumSeq(seq) ==
    IF seq = <<>> THEN 0 ELSE seq[1] + SumSeq(Tail(seq))

\* the test inserted before the first test of an equal or later date
InsertByDate_BeforeEqual(sorted, t) ==
    LET k == Cardinality({i \in 1..Len(sorted) :
                            sorted[i].test_date < t.test_date})
    IN  SubSeq(sorted, 1, k) \o <<t>> \o SubSeq(sorted, k + 1, Len(sorted))

\* one step of the stable sort: t goes after the tests dated no later
InsertByDate(sorted, t) ==
    LET k == Cardinality({i \in 1..Len(sorted) :
                            sorted[i].test_date <= t.test_date})
    IN  SubSeq(sorted, 1, k) \o <<t>> \o SubSeq(sorted, k + 1, Len(sorted))

\* sorted(tests, key=lambda x: x.test_date)
RECURSIVE SortedByDate(_)
SortedByDate(tests) ==
    IF tests = <<>> THEN <<>>
    ELSE InsertByDate(SortedByDate(SubSeq(tests, 1, Len(tests) - 1)),
                      tests[Len(tests)])

\* the slopes j/80 (j odd, not a multiple of 5) that lie halfway between two
\* thousandths and whose binary64 quotient lies above j/80: round(slope, 3)
\* rounds these away from zero, the other such slopes towards zero
SlopeTiesAbove == {1, 9, 11, 13}

\* round(num/den, 3) of the binary64 quotient, num already in thousandths
RoundSlope(num, den) ==
    LET a == Abs(num)
        q == a \div den
        r == a - q * den
        m == 2 * q + 1
        up == IF 2 * r > den THEN TRUE
              ELSE IF 2 * r < den THEN FALSE
              ELSE IF m % 125 = 0 THEN q % 2 = 1
              ELSE (m \div 25) \in SlopeTiesAbove
        mag == IF up THEN q + 1 ELSE q
    IN  IF num < 0 THEN - mag ELSE mag

AnalyzePerformanceTrend(tests) ==
    IF Len(tests) < 2 THEN [trend |-> "insufficient_data", slope |-> 0]
    ELSE
    LET sorted == SortedByDate(tests)
        n == Len(sorted)
        values == [i \in 1..n |-> sorted[i].primary_value]
        x_values == [i \in 1..n |-> i - 1]
        sum_x == SumSeq(x_values)
        sum_y == SumSeq(values)
        sum_xy == SumSeq([i \in 1..n |-> x_values[i] * values[i]])
        sum_x2 == SumSeq([i \in 1..n |-> x_values[i] * x_values[i]])
        den == n * sum_x2 - sum_x * sum_x
        num == n * sum_xy - sum_x * sum_y
    IN  IF den = 0 THEN [trend |-> "stable", slope |-> 0]
        ELSE [trend |-> IF 10 * num > 16 * den THEN "improving"
                        ELSE IF 10 * num < - 16 * den THEN "declining"
                        ELSE "stable",
              slope |-> RoundSlope(num * 1000, 16 * den)]

TestRows == [test_date : Dates, primary_value : 0..MaxTrendValue]

TestLists == UNION {[1..n -> TestRows] : n \in 0..MaxTrendLen}

InitTrend ==
    /\ trend \in [called : {FALSE}, tests : TestLists, trend : {""},
                  slope : {0}]
    /\ profile = NoProfile
    /\ week = 1
    /\ history = <<>>
    /\ IdlePlan
    /\ IdleApi
    /\ IdleAnalytics
    /\ IdleLoad
    /\ IdleRecord

AnalyzeTrend ==
    /\ ~ trend.called
    /\ LET r == AnalyzePerformanceTrend(trend.tests)
       IN  trend' = [trend EXCEPT !.called = TRUE, !.trend = r.trend,
                                  !.slope = r.slope]
    /\ UNCHANGED <<callVars, apiVars, analyticsVars, loadVars, recordVars>>

NextTrend == AnalyzeTrend

SpecTrend == InitTrend /\ [][NextTrend]_vars

(***************************************************************************)
(* TrainingOptimizer.optimize_exercise_load.  Factors are in tenths, the    *)
(* intensity percentage in tenths of a percent, the trend in hundredths of  *)
(* a percent.  A test of the history is a record [test_date, primary_value].*)
(***************************************************************************)
ExerciseTypes == {"strength", "power", "endurance", "plyometric"}

Fixed(sets, reps, intensity, rest_time) ==
    [sets |-> sets, reps_type |-> "fixed", reps |-> reps, reps_min |-> 0,
     reps_max |-> 0, intensity |-> intensity, rest_time |-> rest_time]

Range(sets, reps_min, reps_max, intensity, rest_time) ==
    [sets |-> sets, reps_type |-> "range", reps |-> 0, reps_min |-> reps_min,
     reps_max |-> reps_max, intensity |-> intensity, rest_time |-> rest_time]

\* a default entry of two sets
DefaultParameters_TwoSets == Fixed(2, 10, 70, 90)

\* the entry used for an exercise type or level the table does not have
DefaultParameters == Fixed(3, 10, 70, 90)

\* _get_base_exercise_parameters
GetBaseExerciseParameters(exercise_type, fitness_level) ==
    IF exercise_type = "strength" /\ fitness_level \in FitnessLevels
    THEN CASE fitness_level = "beginner" -> Fixed(2, 12, 60, 90)
           [] fitness_level = "intermediate" -> Range(3, 8, 12, 70, 120)
           [] fitness_level = "advanced" -> Range(4, 6, 10, 80, 150)
           [] fitness_level = "elite" -> Range(5, 4, 8, 85, 180)
    ELSE IF exercise_type = "power" /\ fitness_level \in FitnessLevels
    THEN CASE fitness_level = "beginner" -> Fixed(3, 8, 70, 120)
           [] fitness_level = "intermediate" -> Range(4, 6, 8, 80, 150)
           [] fitness_level = "advanced" -> Range(5, 4, 6, 85, 180)
           [] fitness_level = "elite" -> Range(6, 3, 5, 90, 200)
    ELSE IF exercise_type = "endurance"
    THEN Fixed(3, 20, 60, 60)
    ELSE DefaultParameters

\* a boundary percentage counted with the level below it
IntensityToLevel_BoundaryBelow(intensity_percent) ==
    IF intensity_percent > 900 THEN "maximal"
    ELSE IF intensity_percent > 800 THEN "very_high"
    ELSE IF intensity_percent > 700 THEN "high"
    ELSE IF intensity_percent > 600 THEN "moderate"
    ELSE "low"

\* _intensity_to_level, the percentage in tenths
IntensityToLevel(intensity_percent) ==
    IF intensity_percent >= 900 THEN "maximal"
    ELSE IF intensity_percent >= 800 THEN "very_high"
    ELSE IF intensity_percent >= 700 THEN "high"
    ELSE IF intensity_percent >= 600 THEN "moderate"
    ELSE "low"

\* Python slice seq[-n:]
LastOf(seq, n) == SubSeq(seq, Max(1, Len(seq) - n + 1), Len(seq))

\* _analyze_performance_trend
RecentTrend(performance_history) ==
    IF Len(performance_history) < 2 THEN 0
    ELSE
    LET tests == LastOf(performance_history, 3)
        initial_value == tests[1].primary_value
        final_value == tests[Len(tests)].primary_value
    IN  IF initial_value = 0 THEN 0
        ELSE RoundHalfEven((final_value - initial_value) * 10000,
                           initial_value)

PerformanceFactor_AnyDecline(performance_history) ==
    IF performance_history = <<>> THEN 10
    ELSE LET recent_trend == RecentTrend(performance_history)
         IN  IF recent_trend > 0 THEN 11
             ELSE IF recent_trend < 0 THEN 9
             ELSE 10

PerformanceFactor(performance_history) ==
    IF performance_history = <<>> THEN 10
    ELSE LET recent_trend == RecentTrend(performance_history)
         IN  IF recent_trend > 0 THEN 11
             ELSE IF recent_trend < -500 THEN 9
             ELSE 10

\* _generate_progression_notes: the kind of note and its percentage in tenths
GenerateProgressionNotes(load_factor) ==
    IF load_factor > 10 THEN <<"increase", (load_factor - 10) * 100>>
    ELSE IF load_factor < 10 THEN <<"reduce", (10 - load_factor) * 100>>
    ELSE <<"maintain", 0>>

ExperienceFactor(p) == Min(Get(p, "years_experience", 1), 10)

AgeFactor(p) == IF p.age < 30 THEN 10 ELSE 9

\* the product rounded to the nearest integer instead of truncated
OptimizedSets_Rounded(base_sets, experience_factor, age_factor) ==
    Max(1, RoundHalfEven(base_sets * experience_factor * age_factor, 100))

\* max(1, int(base_sets * experience_factor * age_factor))
OptimizedSets(base_sets, experience_factor, age_factor) ==
    Max(1, (base_sets * experience_factor * age_factor) \div 100)

\* the base reps returned without the performance factor applied
OptimizedReps_Unscaled(base_params, performance_factor) ==
    IF base_params.reps_type = "range"
    THEN <<base_params.reps_min, base_params.reps_max>>
    ELSE << base_params.reps >>

\* the reps string: <<n>> for "n", <<lo, hi>> for "lo-hi"
OptimizedReps(base_params, performance_factor) ==
    IF base_params.reps_type = "range"
    THEN LET min_reps ==
                Max(1, (base_params.reps_min * performance_factor) \div 10)
             max_reps ==
                Max(min_reps + 2,
                    (base_params.reps_max * performance_factor) \div 10)
         IN  <<min_reps, max_reps>>
    ELSE << Max(1, (base_params.reps * performance_factor) \div 10) >>

LoadRaises(p) == ~ ({"fitness_level", "age"} \subseteq p.keys)

\* the dict returned at the end of the try block
LoadRecord(exercise_type, p, performance_history) ==
    LET base_params ==
            GetBaseExerciseParameters(exercise_type, p.fitness_level)
        performance_factor == PerformanceFactor(performance_history)
        intensity == Min(1000, base_params.intensity * performance_factor)
    IN  [sets |-> OptimizedSets(base_params.sets, ExperienceFactor(p),
                                AgeFactor(p)),
         reps |-> OptimizedReps(base_params, performance_factor),
         intensity |-> IntensityToLevel(intensity),
         rest_time |-> base_params.rest_time,
         load_factor |-> performance_factor,
         progression_notes |-> GenerateProgressionNotes(performance_factor)]

\* <<dict>>, or <<>> when the body raises
OptimizeExerciseLoad(exercise_type, p, performance_history) ==
    IF LoadRaises(p) THEN <<>>
    ELSE << LoadRecord(exercise_type, p, performance_history) >>

(***************************************************************************)
(* Callers of the engine: each behaviour starts with the arguments of one   *)
(* call in place and the call is then made.                                 *)
(***************************************************************************)
EngineAges == {22, 30, 36, 45}
EngineYears == {0, 3, 6, 12}
HistoryValues == {0, 20, 21, 25}

EngineProfile(sport, level, years, a) ==
    [keys |-> ProfileKeys, sport_type |-> sport, fitness_level |-> level,
     training_frequency |-> 3, years_experience |-> years, age |-> a]

LoadProfiles ==
    {EngineProfile("other", level, years, a) :
        level \in FitnessLevels, years \in EngineYears, a \in EngineAges}
    \cup {Restrict(EngineProfile("other", "elite", 6, 22),
                   ProfileKeys \ {k}) :
            k \in {"fitness_level", "age", "years_experience"}}

\* a list of tests in the order given, dated by position
TestsOf(values) ==
    [i \in 1..Len(values) |-> [test_date |-> i, primary_value |-> values[i]]]

\* histories whose change is within half a hundredth of a percent of a
\* threshold of optimize_exercise_load: +0.0025 and -5.0025 percent
SmallChanges == {<<40000, 40001>>, <<40000, 37999>>}

LoadHistories ==
    {TestsOf(values) :
        values \in UNION {[1..n -> HistoryValues] : n \in 0..MaxHistory}}
    \cup {TestsOf(values) : values \in SmallChanges}

InitLoad ==
    /\ load \in [called : {FALSE}, exercise_type : ExerciseTypes,
                 user_profile : LoadProfiles,
                 performance_history : LoadHistories,
                 outcome : {"idle"}, value : {<<>>}]
    /\ prediction = NoPrediction
    /\ dbTests = <<>>
    /\ profile = NoProfile
    /\ week = 1
    /\ history = <<>>
    /\ IdlePlan
    /\ IdleApi
    /\ IdleAnalytics
    /\ IdleTrend
    /\ IdleRecord

\* a call that fills in the default years_experience in the caller's dict
OptimizeLoad_SetsDefault ==
    /\ ~ load.called
    /\ load.exercise_type # ""
    /\ LET r == OptimizeExerciseLoad(load.exercise_type, load.user_profile,
                                     load.performance_history)
       IN  load' = [load EXCEPT
                        !.called = TRUE, !.outcome = Outcome(r), !.value = r,
                        !.user_profile =
                            [@ EXCEPT !.keys = @ \cup {"years_experience"}]]
    /\ UNCHANGED <<callVars, apiVars, analyticsVars, trend, prediction,
                   dbTests, recordVars>>

OptimizeLoad ==
    /\ ~ load.called
    /\ load.exercise_type # ""
    /\ LET r == OptimizeExerciseLoad(load.exercise_type, load.user_profile,
                                     load.performance_history)
       IN  load' = [load EXCEPT !.called = TRUE, !.outcome = Outcome(r),
                                !.value = r]
    /\ UNCHANGED <<callVars, apiVars, analyticsVars, trend, prediction,
                   dbTests, recordVars>>

(***************************************************************************)
(* TrainingOptimizer.predict_performance_improvement.  Rates and factors    *)
(* are exact fractions <<numerator, denominator>>; the returned numbers are *)
(* in hundredths.  Where the exact value lies halfway between two           *)
(* hundredths the binary64 product lies just above or just below it,        *)
(* depending on the rounding errors of the factors: round(x, 2) then gives  *)
(* either neighbour, and both are allowed.                                  *)
(***************************************************************************)
RECURSIVE GCD(_, _)
GCD(a, b) == IF b = 0 THEN a ELSE GCD(b, a % b)

Frac(n, d) == LET g == GCD(n, d) IN <<n \div g, d \div g>>

\* the fraction x times n/d
Times(x, n, d) == Frac(x[1] * n, x[2] * d)

\* round(x, 2) of a binary64 value whose exact value is the fraction x
Round2(x) ==
    LET num == x[1] * 100
        q == num \div x[2]
        r == num - q * x[2]
    IN  IF 2 * r > x[2] THEN {q + 1}
        ELSE IF 2 * r < x[2] THEN {q}
        ELSE {q, q + 1}

Metrics == {"power", "speed", "agility", "endurance", "strength",
            "flexibility"}

\* dict.get(metric, 1.0) on a table of tenths
Factor(table, metric) ==
    IF metric \in DOMAIN table THEN table[metric] ELSE 10

EmptyTable == [metric \in {} |-> 10]

\* the base rates in tenths of a percent per week
base_rates ==
    [power |-> 20, speed |-> 15, agility |-> 18, endurance |-> 25,
     strength |-> 22, flexibility |-> 10]

level_multipliers ==
    [beginner |-> 15, intermediate |-> 10, advanced |-> 7, elite |-> 5]

\* the second age adjustment applied instead of the first, not on top of it
GetBaseImprovementRate_ElseIf(a, fitness_level, metric) ==
    LET aged == IF a > 40 THEN Times(Frac(base_rates[metric], 10), 8, 10)
                ELSE IF a > 30
                THEN Times(Frac(base_rates[metric], 10), 9, 10)
                ELSE Frac(base_rates[metric], 10)
    IN  Times(aged, Factor(level_multipliers, fitness_level), 10)

\* _get_base_improvement_rates, the entry of one metric
GetBaseImprovementRate(a, fitness_level, metric) ==
    LET base == Frac(base_rates[metric], 10)
        over30 == IF a > 30 THEN Times(base, 9, 10) ELSE base
        over40 == IF a > 40 THEN Times(over30, 8, 10) ELSE over30
    IN  Times(over40, Factor(level_multipliers, fitness_level), 10)

\* _get_training_multipliers
GetTrainingMultipliers(training_type) ==
    CASE training_type = "strength" ->
            [power |-> 13, strength |-> 15, speed |-> 11, agility |-> 9,
             endurance |-> 8]
      [] training_type = "hiit" ->
            [power |-> 14, speed |-> 13, agility |-> 12, endurance |-> 12,
             strength |-> 10]
      [] training_type = "endurance" ->
            [endurance |-> 15, speed |-> 11, power |-> 8, agility |-> 9,
             strength |-> 9]
      [] training_type = "agility" ->
            [agility |-> 15, speed |-> 12, power |-> 11, endurance |-> 9,
             strength |-> 9]
      [] OTHER -> EmptyTable

\* _get_sport_factors
GetSportFactors(sport_type) ==
    CASE sport_type = "football" ->
            [power |-> 12, strength |-> 13, agility |-> 12, speed |-> 11]
      [] sport_type = "basketball" ->
            [agility |-> 13, power |-> 12, endurance |-> 11, speed |-> 11]
      [] sport_type = "tennis" ->
            [agility |-> 14, speed |-> 12, endurance |-> 11,
             flexibility |-> 12]
      [] sport_type = "running" ->
            [endurance |-> 14, speed |-> 12, power |-> 9]
      [] sport_type = "cycling" ->
            [endurance |-> 13, power |-> 11, strength |-> 11]
      [] sport_type = "swimming" ->
            [endurance |-> 13, flexibility |-> 12, strength |-> 11]
      [] OTHER -> EmptyTable

\* the per-metric confidence factors in hundredths
metric_confidence ==
    [strength |-> 80, endurance |-> 75, power |-> 70, agility |-> 65,
     speed |-> 70, flexibility |-> 60]

\* the experience bonus given above 3 years only
CalculateConfidenceScore_Above3(p, metric) ==
    LET experience == Get(p, "years_experience", 0)
        a == Get(p, "age", 25)
        base_confidence ==
            7 + (IF experience > 3 THEN 1 ELSE 0) - (IF a > 35 THEN 1 ELSE 0)
        final_confidence == base_confidence * metric_confidence[metric]
    IN  RoundFloat(Min(Max(final_confidence, 300), 950), 10, -1)

\* _calculate_confidence_score, in hundredths; the binary64 product lies
\* below every exact value that is halfway between two hundredths
CalculateConfidenceScore(p, metric) ==
    LET experience == Get(p, "years_experience", 0)
        a == Get(p, "age", 25)
        base_confidence ==
            7 + (IF experience >= 3 THEN 1 ELSE 0) - (IF a > 35 THEN 1 ELSE 0)
        final_confidence == base_confidence * metric_confidence[metric]
    IN  RoundFloat(Min(Max(final_confidence, 300), 950), 10, -1)

WeeklyImprovement(p, training_plan, metric) ==
    LET base_rate ==
            GetBaseImprovementRate(p.age, p.fitness_level, metric)
        multiplier ==
            Factor(GetTrainingMultipliers(training_plan.training_type),
                   metric)
        sport_factor == Factor(GetSportFactors(p.sport_type), metric)
    IN  Times(Times(base_rate, multiplier, 10), sport_factor, 10)

TotalImprovement(p, training_plan, weeks_ahead, metric) ==
    LET total == Times(WeeklyImprovement(p, training_plan, metric),
                       weeks_ahead, 1)
        experienced == IF Get(p, "years_experience", 0) > 5
                       THEN Times(total, 8, 10) ELSE total
    IN  IF Get(p, "age", 25) > 30 THEN Times(experienced, 9, 10)
        ELSE experienced

\* the values predictions[metric] can take
MetricPredictions(p, training_plan, weeks_ahead, metric) ==
    [expected_improvement_percentage :
        Round2(TotalImprovement(p, training_plan, weeks_ahead, metric)),
     confidence_score : {CalculateConfidenceScore(p, metric)},
     weekly_rate : Round2(WeeklyImprovement(p, training_plan, metric))]

PredictRaises(p, training_plan) ==
    \/ ~ ({"age", "fitness_level", "sport_type"} \subseteq p.keys)
    \/ "training_type" \notin training_plan.keys

PredictTypes == {"strength", "hiit", "endurance", "agility", "cardio"}

PredictProfiles ==
    {EngineProfile(sport, level, years, a) :
        sport \in SportTypes, level \in FitnessLevels,
        years \in EngineYears, a \in EngineAges}
    \cup {Restrict(EngineProfile("football", "elite", 6, 36),
                   ProfileKeys \ {k}) :
            k \in {"fitness_level", "age", "years_experience",
                   "sport_type"}}

PredictPlans ==
    [keys : {{"training_type"}}, training_type : PredictTypes]
    \cup {[keys |-> {}, training_type |-> ""]}

InitPredict ==
    /\ prediction \in [called : {FALSE}, user_profile : PredictProfiles,
                       training_plan : PredictPlans,
                       weeks_ahead : 1..MaxAhead,
                       outcome : {"idle"}, value : {<<>>}]
    /\ prediction.user_profile.keys # {}
    /\ load = NoLoad
    /\ dbTests = <<>>
    /\ profile = NoProfile
    /\ week = 1
    /\ history = <<>>
    /\ IdlePlan
    /\ IdleApi
    /\ IdleAnalytics
    /\ IdleTrend
    /\ IdleRecord

PredictImprovement ==
    /\ ~ prediction.called
    /\ prediction.user_profile.keys # {}
    /\ LET p == prediction.user_profile
           plan == prediction.training_plan
           w == prediction.weeks_ahead
       IN  IF PredictRaises(p, plan)
           THEN prediction' = [prediction EXCEPT !.called = TRUE,
                                                 !.outcome = "error"]
           ELSE \E power \in MetricPredictions(p, plan, w, "power"),
                   speed \in MetricPredictions(p, plan, w, "speed"),
                   agility \in MetricPredictions(p, plan, w, "agility"),
                   endurance \in MetricPredictions(p, plan, w, "endurance"),
                   strength \in MetricPredictions(p, plan, w, "strength"),
                   flexibility \in
                        MetricPredictions(p, plan, w, "flexibility") :
                    prediction' =
                        [prediction EXCEPT
                            !.called = TRUE,
                            !.outcome = "ok",
                            !.value =
                                << [power |-> power, speed |-> speed,
                                    agility |-> agility,
                                    endurance |-> endurance,
                                    strength |-> strength,
                                    flexibility |-> flexibility] >>]
    /\ UNCHANGED <<callVars, apiVars, analyticsVars, trend, load, dbTests,
                   recordVars>>

(***************************************************************************)
(* api/training.py POST /optimize-load: the history handed to the engine is *)
(* the user's five most recent tests, most recent first.                    *)
(***************************************************************************)
RECURSIVE Reverse(_)
Reverse(seq) ==
    IF seq = <<>> THEN <<>> ELSE Append(Reverse(Tail(seq)), seq[1])

\* order_by(Performance.test_date.desc()).limit(5), the dates being distinct
RecentTests(rows) == Take(Reverse(SortedByDate(rows)), 5)

\* exercise_type of the request body; "" when it is missing
RequestExercises == {"strength", ""}

DistinctDates(rows) ==
    \A i, j \in 1..Len(rows) :
        rows[i].test_date = rows[j].test_date => i = j

StoredTests ==
    {rows \in UNION {[1..n -> [test_date : 1..MaxHistory,
                               primary_value : HistoryValues]] :
                        n \in 0..MaxHistory} : DistinctDates(rows)}

InitLoadApi ==
    /\ dbTests \in StoredTests
    /\ load = NoLoad
    /\ prediction = NoPrediction
    /\ profile = NoProfile
    /\ week = 1
    /\ history = <<>>
    /\ IdlePlan
    /\ IdleApi
    /\ IdleAnalytics
    /\ IdleTrend
    /\ IdleRecord

ApiOptimizeLoad ==
    /\ resp = 0
    /\ load = NoLoad
    /\ prediction = NoPrediction
    /\ \E user \in ApiUsers, exercise_type \in RequestExercises :
        IF exercise_type = ""
        THEN /\ resp' = 400
             /\ UNCHANGED load
        ELSE LET user_profile == UserProfile(user)
                 performance_history == RecentTests(dbTests)
                 r == OptimizeExerciseLoad(exercise_type, user_profile,
                                           performance_history)
             IN  /\ load' = [called |-> TRUE,
                             exercise_type |-> exercise_type,
                             user_profile |-> user_profile,
                             performance_history |-> performance_history,
                             outcome |-> Outcome(r), value |-> r]
                 /\ resp' = IF r = <<>> THEN 500 ELSE 200
    /\ UNCHANGED <<callVars, dbPlans, dbSessions, analyticsVars, trend,
                   prediction, dbTests, recordVars>>

(***************************************************************************)
(* generate_training_plan called with the arguments in place                *)
(***************************************************************************)
GenerateProfiles ==
    {EngineProfile(sport, level, 6, 22) :
        sport \in SportTypes, level \in FitnessLevels}
    \cup {Restrict(EngineProfile("volleyball", "elite", 6, 22),
                   ProfileKeys \ {k}) : k \in RequiredKeys}

GenerateWeeks == {NullWeek, 1, 2, 3, 4}

InitGenerate ==
    /\ profile \in GenerateProfiles
    /\ week \in GenerateWeeks
    /\ history \in Histories
    /\ IdlePlan
    /\ IdleApi
    /\ IdleAnalytics
    /\ IdleService

EngineGenerate ==
    /\ profile # NoProfile
    /\ GeneratePlan

InitEngine == InitLoad \/ InitPredict \/ InitLoadApi \/ InitGenerate

NextEngine ==
    OptimizeLoad \/ PredictImprovement \/ ApiOptimizeLoad \/ EngineGenerate

SpecEngine == InitEngine /\ [][NextEngine]_vars

(***************************************************************************)
(* api/performance.py POST /tests (record_performance_test) for one user.   *)
(* A performances row keeps the fields the analytics read; percentile_rank, *)
(* ai_analysis and recommendations are written but never read back and are  *)
(* left out.  A performance_baselines row has the fields of NoBaseline.     *)
(***************************************************************************)
RecordTypes == {"vertical_jump", "sprint_20m"}
RecordValues == {0, 1, 2}
RecordDates == {1, 2}

\* the users row of the token's identity, None when there is no such row
RecordUsers == {None, Some([age |-> 22])}

\* the rows of one (user, test type, metric) key, in insertion order
TestsOfKey(rows, test_type) ==
    SelectSeq(rows, LAMBDA r : r.test_type = test_type)

\* the rows order_by(test_date.desc()) can return first
LatestTests(rows) ==
    {rows[i] : i \in {j \in 1..Len(rows) :
                        \A k \in 1..Len(rows) :
                            rows[k].test_date <= rows[j].test_date}}

\* index of the row filter_by(...).first() returns, 0 when there is none
FirstBaseline(rows, test_type) ==
    IF \E i \in 1..Len(rows) : rows[i].test_type = test_type
    THEN CHOOSE i \in 1..Len(rows) :
            /\ rows[i].test_type = test_type
            /\ \A j \in 1..(i - 1) : rows[j].test_type # test_type
    ELSE 0

NewBaseline_ValueUnset(test_type, value) ==
    [NoBaseline EXCEPT !.test_type = test_type]

NewBaseline(test_type, value) ==
    [NoBaseline EXCEPT !.test_type = test_type, !.baseline_value = value]

\* PerformanceBaseline.to_dict calls calculate_current_improvement, which
\* divides by baseline_value once a current best is set
BaselineToDictRaises(b) == ~ Falsy(b.current_best) /\ b.baseline_value = 0

InitRecord ==
    /\ dbUser \in RecordUsers
    /\ dbTests = <<>>
    /\ dbBaselines = <<>>
    /\ pending = NoPending
    /\ report = NoReport
    /\ IdleSession
    /\ load = NoLoad
    /\ prediction = NoPrediction
    /\ profile = NoProfile
    /\ week = 1
    /\ history = <<>>
    /\ IdlePlan
    /\ IdleApi
    /\ IdleAnalytics
    /\ IdleTrend

RecordTest ==
    \E test_type \in RecordTypes, value \in RecordValues,
       test_date \in RecordDates, complete \in BOOLEAN :
        /\ Len(dbTests) < MaxTests
        /\ IF dbUser = None
           THEN /\ resp' = 404
                /\ UNCHANGED <<dbTests, dbBaselines>>
           ELSE IF ~ complete
           THEN \* a required field is missing from the body
                /\ resp' = 400
                /\ UNCHANGED <<dbTests, dbBaselines>>
           ELSE
           LET previous_tests == TestsOfKey(dbTests, test_type)
               i == FirstBaseline(dbBaselines, test_type)
               improvement_from_baseline ==
                    IF i = 0 THEN 0
                    ELSE CalculateImprovement(
                            value, dbBaselines[i].baseline_value, test_type)
               baselines ==
                    IF i = 0
                    THEN Append(dbBaselines, NewBaseline(test_type, value))
                    ELSE [dbBaselines EXCEPT
                            ![i] = UpdateCurrentBest(@, value, test_date)]
               returned == IF i = 0 THEN baselines[Len(baselines)]
                           ELSE baselines[i]
           IN  \E last \in IF previous_tests = <<>> THEN {None}
                           ELSE {Some(r) : r \in LatestTests(previous_tests)} :
                LET performance ==
                        [test_type |-> test_type,
                         test_date |-> test_date,
                         primary_value |-> value,
                         improvement_from_last_test |->
                            IF last = None THEN None
                            ELSE Some(CalculateImprovement(
                                    value, last[1].primary_value, test_type)),
                         improvement_from_baseline |->
                            improvement_from_baseline]
                IN  \* the commit comes before the response is built, so
                    \* an exception of to_dict finds the rows stored
                    /\ dbTests' = Append(dbTests, performance)
                    /\ dbBaselines' = baselines
                    /\ resp' = IF BaselineToDictRaises(returned)
                               THEN 500 ELSE 201
        /\ UNCHANGED <<callVars, dbPlans, dbSessions, analyticsVars, trend,
                       load, prediction, dbUser, pending, report,
                       sessionVars>>

\* PUT /baselines/<id>/targets (update_performance_targets): the body names
\* any of the three targets
TargetValues == {2}
TargetBodies == {{}, {"short_term"}, TargetTypes}

UpdateTargets ==
    \E baseline_id \in 1..(Len(dbBaselines) + 1),
       keys \in TargetBodies, target \in TargetValues :
        /\ IF baseline_id > Len(dbBaselines)
           THEN /\ resp' = 404
                /\ UNCHANGED dbBaselines
           ELSE LET b == dbBaselines[baseline_id]
                    updated ==
                        [b EXCEPT
                            !.short_term_target =
                                IF "short_term" \in keys
                                THEN Some(target) ELSE @,
                            !.medium_term_target =
                                IF "medium_term" \in keys
                                THEN Some(target) ELSE @,
                            !.long_term_target =
                                IF "long_term" \in keys
                                THEN Some(target) ELSE @]
                IN  /\ dbBaselines' = [dbBaselines EXCEPT
                                            ![baseline_id] = updated]
                    /\ resp' = IF BaselineToDictRaises(updated)
                               THEN 500 ELSE 200
        /\ UNCHANGED <<callVars, dbPlans, dbSessions, analyticsVars, trend,
                       load, prediction, dbTests, dbUser, pending, report,
                       sessionVars>>

NextRecord == RecordTest \/ UpdateTargets

SpecRecord == InitRecord /\ [][NextRecord]_vars

(***************************************************************************)
(* Two record-test requests of one user served at the same time.  Each     *)
(* handler has its own database session: it first runs its two queries      *)
(* (api/performance.py 51-70), which take no lock, and later adds its rows  *)
(* and commits (72-106).  Between the two steps the other handler may run.  *)
(* A baseline loaded by the queries is an object holding the column values  *)
(* read; the commit writes back the attributes update_current_best changed. *)
(***************************************************************************)
RaceUsers == {Some([age |-> 22])}

InitRace ==
    /\ dbUser \in RaceUsers
    /\ dbTests = <<>>
    /\ dbBaselines = <<>>
    /\ pending = NoPending
    /\ report = NoReport
    /\ IdleSession
    /\ load = NoLoad
    /\ prediction = NoPrediction
    /\ profile = NoProfile
    /\ week = 1
    /\ history = <<>>
    /\ IdlePlan
    /\ IdleApi
    /\ IdleAnalytics
    /\ IdleTrend

\* lines 18-70: the request is validated and both queries are answered
RecordQuery(h) ==
    \E test_type \in RecordTypes, value \in RecordValues,
       test_date \in RecordDates :
        /\ pending[h] = None
        /\ Len(dbTests) + Cardinality({g \in Handlers : pending[g] # None})
                < MaxTests
        /\ LET previous_tests == TestsOfKey(dbTests, test_type)
               i == FirstBaseline(dbBaselines, test_type)
           IN  \E last \in IF previous_tests = <<>> THEN {None}
                           ELSE {Some(r) : r \in LatestTests(previous_tests)} :
                pending' = [pending EXCEPT ![h] = Some(
                    [test_type |-> test_type,
                     test_date |-> test_date,
                     primary_value |-> value,
                     improvement_from_last_test |->
                        IF last = None THEN None
                        ELSE Some(CalculateImprovement(
                                value, last[1].primary_value, test_type)),
                     baseline_id |-> i,
                     baseline |-> IF i = 0 THEN NoBaseline
                                  ELSE dbBaselines[i]])]
        /\ UNCHANGED <<callVars, apiVars, analyticsVars, trend, load,
                       prediction, dbTests, dbUser, dbBaselines, report,
                       sessionVars>>

\* lines 72-116: the baseline is created or updated, everything is committed
RecordCommit(h) ==
    /\ pending[h] # None
    /\ LET request == pending[h][1]
           i == request.baseline_id
           loaded == request.baseline
           updated == UpdateCurrentBest(loaded, request.primary_value,
                                        request.test_date)
           performance ==
                [test_type |-> request.test_type,
                 test_date |-> request.test_date,
                 primary_value |-> request.primary_value,
                 improvement_from_last_test |->
                    request.improvement_from_last_test,
                 improvement_from_baseline |->
                    IF i = 0 THEN 0
                    ELSE CalculateImprovement(request.primary_value,
                                              loaded.baseline_value,
                                              request.test_type)]
           \* the UPDATE sets the columns whose attribute changed
           written ==
                     [dbBaselines[i] EXCEPT
                        !.tests_count = updated.tests_count,
                        !.current_best =
                            IF updated.current_best # loaded.current_best
                            THEN updated.current_best ELSE @,
                        !.current_best_date =
                            IF updated.current_best_date
                                    # loaded.current_best_date
                            THEN updated.current_best_date ELSE @]
           baselines ==
                IF i = 0
                THEN Append(dbBaselines,
                            NewBaseline(request.test_type,
                                        request.primary_value))
                ELSE [dbBaselines EXCEPT ![i] = written]
           returned == IF i = 0 THEN baselines[Len(baselines)] ELSE updated
       IN  /\ dbTests' = Append(dbTests, performance)
           /\ dbBaselines' = baselines
           /\ resp' = IF BaselineToDictRaises(returned) THEN 500 ELSE 201
    /\ pending' = [pending EXCEPT ![h] = None]
    /\ UNCHANGED <<callVars, dbPlans, dbSessions, analyticsVars, trend, load,
                   prediction, dbUser, report, sessionVars>>

NextRace == \E h \in Handlers : RecordQuery(h) \/ RecordCommit(h)

SpecRace == InitRace /\ [][NextRace]_vars

(***************************************************************************)
(* api/performance.py report analytics: analyze_metric_improvements and     *)
(* analyze_training_effectiveness, called by the report endpoint with the   *)
(* tests and the sessions of the period.  The sessions of a period are      *)
(* those with an actual_end_time, which only completion sets.  Percentages  *)
(* and ratings are in hundredths; a result is None when the call raises.    *)
(***************************************************************************)
Plus(x, y) == Frac(x[1] * y[2] + y[1] * x[2], x[2] * y[2])

\* the truthy values of a list of optional numbers, in order
Truthy(seq) == SelectSeq(seq, LAMBDA x : ~ Falsy(x))

\* sum of the numbers of a list of optional numbers, None counting 0
RECURSIVE SumOpt(_)
SumOpt(seq) ==
    IF seq = <<>> THEN 0
    ELSE (IF seq[1] = None THEN 0 ELSE seq[1][1]) + SumOpt(Tail(seq))

MaxOpt(seq) ==
    CHOOSE m \in {seq[i][1] : i \in 1..Len(seq)} :
        \A i \in 1..Len(seq) : seq[i][1] <= m

RECURSIVE SumSquares(_)
SumSquares(seq) ==
    IF seq = <<>> THEN 0
    ELSE seq[1][1] * seq[1][1] + SumSquares(Tail(seq))

Column(rows, field) == [i \in 1..Len(rows) |-> rows[i][field]]

\* calculate_metric_consistency of a list of truthy improvements
CalculateMetricConsistency(values) ==
    IF Len(values) < 2 THEN 10000
    ELSE LET n == Len(values)
             s == SumOpt(values)
             \* n^2 times the variance, in hundredths squared
             spread == n * SumSquares(values) - s * s
         IN  Max(0, RoundHalfEven(100000 * n * n - spread, 10 * n * n))

ReportMetrics(tests) == {tests[i].primary_metric : i \in 1..Len(tests)}

ImprovementsOf(tests, metric) ==
    Truthy(Column(SelectSeq(tests, LAMBDA t : t.primary_metric = metric),
                  "improvement_from_last_test"))

\* the division by len(values) raises when no test of a metric has a truthy
\* improvement_from_last_test
AnalyzeMetricImprovements(tests) ==
    IF \E metric \in ReportMetrics(tests) :
            ImprovementsOf(tests, metric) = <<>>
    THEN None
    ELSE Some([metric \in ReportMetrics(tests) |->
                LET values == ImprovementsOf(tests, metric)
                IN  [average_improvement |->
                         RoundHalfEven(SumOpt(values), Len(values)),
                     test_count |-> Len(values),
                     best_improvement |-> MaxOpt(values),
                     consistency |-> CalculateMetricConsistency(values)]])

\* analyze_training_effectiveness: the set of results it can return (more
\* than one where round() meets an exact tie); {None} when it raises
AnalyzeTrainingEffectiveness(sessions, tests) ==
    IF sessions = <<>>
    THEN {Some([effectiveness_score |-> 0, notes |-> TRUE])}
    ELSE
    LET completed_sessions == SelectSeq(sessions, LAMBDA s : s.is_completed)
        ratings == Truthy(Column(completed_sessions, "session_rating"))
        completion_rate == Frac(Len(completed_sessions) * 100, Len(sessions))
        improvements == Column(tests, "improvement_from_last_test")
        avg_improvement ==
            IF improvements = <<>> THEN <<0, 1>>
            ELSE Frac(SumOpt(improvements), 100 * Len(improvements))
    IN  IF completed_sessions # <<>> /\ ratings = <<>>
        THEN {None}
        ELSE
        LET avg_rating ==
                IF completed_sessions = <<>> THEN <<0, 1>>
                ELSE Frac(SumOpt(ratings), Len(ratings))
            effectiveness_score ==
                Plus(Plus(Times(completion_rate, 4, 10),
                          Times(avg_rating, 3, 1)),
                     IF avg_improvement[1] > 0
                     THEN Times(avg_improvement, 3, 10) ELSE <<0, 1>>)
        IN  {Some([effectiveness_score |-> e, notes |-> FALSE,
                   completion_rate |-> c, average_rating |-> r,
                   average_improvement |-> a]) :
                <<e, c, r, a>> \in Round2(effectiveness_score)
                                    \X Round2(completion_rate)
                                    \X Round2(avg_rating)
                                    \X Round2(avg_improvement)}

ReportRatings == {None, Some(3), Some(4)}
ReportImprovements == {None, Some(0), Some(250), Some(-250)}
ReportSessionRows == [is_completed : {TRUE}, session_rating : ReportRatings]
ReportTestRows == [primary_metric : {"power", "speed"},
                   improvement_from_last_test : ReportImprovements]

ListsOf(rows, n) == UNION {[1..k -> rows] : k \in 0..n}

InitReport ==
    /\ \E sessions \in ListsOf(ReportSessionRows, MaxReport),
          tests \in ListsOf(ReportTestRows, MaxReport) :
            report = [NoReport EXCEPT !.sessions = sessions, !.tests = tests]
    /\ dbUser = None
    /\ dbBaselines = <<>>
    /\ pending = NoPending
    /\ IdleSession
    /\ IdleTrend
    /\ IdleLoad
    /\ profile = NoProfile
    /\ week = 1
    /\ history = <<>>
    /\ IdlePlan
    /\ IdleApi
    /\ IdleAnalytics

AnalyzeReport ==
    /\ ~ report.called
    /\ \E effectiveness \in
            AnalyzeTrainingEffectiveness(report.sessions, report.tests) :
        report' = [report EXCEPT
                    !.called = TRUE,
                    !.effectiveness = effectiveness,
                    !.metrics = AnalyzeMetricImprovements(report.tests)]
    /\ UNCHANGED <<callVars, apiVars, analyticsVars, trend, loadVars,
                   dbUser, dbBaselines, pending, sessionVars>>

NextReport == AnalyzeReport

SpecReport == InitReport /\ [][NextReport]_vars

(***************************************************************************)
(* api/training.py POST /sessions/<id>/start and /sessions/<id>/complete    *)
(* on the sessions of one user's plan.  tracking[i] holds the execution     *)
(* columns of session i; times are clock ticks of one minute.  The          *)
(* perceived_exertion and user_notes of the body are stored as given and    *)
(* are left out.                                                            *)
(***************************************************************************)
\* a row as the plan endpoint creates it: the column defaults
NewSession ==
    [is_completed |-> FALSE, actual_start_time |-> None,
     actual_end_time |-> None, actual_duration |-> None,
     session_rating |-> None]

\* start_training_session refuses a completed session
StartRejected_Never(session) == FALSE

StartRejected(session) == session.is_completed

\* int(duration.total_seconds() / 60)
ActualDuration_Reversed(session, end_time) ==
    session.actual_start_time[1] - end_time

ActualDuration(session, end_time) ==
    end_time - session.actual_start_time[1]

\* the bodies of a complete request: one that is not a JSON object, and
\* objects with or without a session_rating
\* the ids of the user's sessions, and the ids a request may name: 0 is the
\* id of no session of the user
SessionIds == {1, 2}
RequestIds == SessionIds \cup {0}

CompleteBodies ==
    {[is_object |-> FALSE, session_rating |-> None]}
        \cup [is_object : {TRUE}, session_rating : ReportRatings]

InitSession ==
    /\ tracking = [i \in SessionIds |-> NewSession]
    /\ lastRequest = NoRequest
    /\ dbUser = None
    /\ dbBaselines = <<>>
    /\ pending = NoPending
    /\ report = NoReport
    /\ IdleTrend
    /\ IdleLoad
    /\ profile = NoProfile
    /\ week = 1
    /\ history = <<>>
    /\ IdlePlan
    /\ IdleApi
    /\ IdleAnalytics

StartSession ==
    \E session_id \in RequestIds :
        /\ lastRequest' = [kind |-> "start", session_id |-> session_id]
        /\ IF session_id \notin DOMAIN tracking
           THEN /\ resp' = 404
                /\ UNCHANGED tracking
           ELSE IF StartRejected(tracking[session_id])
           THEN /\ resp' = 400
                /\ UNCHANGED tracking
           ELSE /\ tracking' = [tracking EXCEPT
                                ![session_id].actual_start_time = Some(now)]
                /\ resp' = 200
        /\ UNCHANGED <<callVars, dbPlans, dbSessions, analyticsVars, trend,
                       loadVars, dbUser, dbBaselines, pending, report>>

CompleteSession ==
    \E session_id \in RequestIds, data \in CompleteBodies :
        /\ lastRequest' = [kind |-> "complete", session_id |-> session_id]
        /\ IF session_id \notin DOMAIN tracking
           THEN /\ resp' = 404
                /\ UNCHANGED tracking
           ELSE IF ~ data.is_object
           THEN \* data.get raises: rollback, 500
                /\ resp' = 500
                /\ UNCHANGED tracking
           ELSE LET session == tracking[session_id]
                IN  /\ tracking' = [tracking EXCEPT ![session_id] =
                            [session EXCEPT
                                !.actual_end_time = Some(now),
                                !.is_completed = TRUE,
                                !.session_rating = data.session_rating,
                                !.actual_duration =
                                    IF session.actual_start_time = None
                                    THEN @
                                    ELSE Some(ActualDuration(session, now))]]
                    /\ resp' = 200
        /\ UNCHANGED <<callVars, dbPlans, dbSessions, analyticsVars, trend,
                       loadVars, dbUser, dbBaselines, pending, report>>

NextSession == StartSession \/ CompleteSession \/ Tick

SpecSession == InitSession /\ [][NextSession]_vars

(***************************************************************************)
(* Properties of plan generation                                           *)
(***************************************************************************)
Plan == result[1]

\* C1: for every fitness level and week the plan's difficulty_score and each
\* session's difficulty_level lie in [1, 10] (10..100 tenths).
C1_DifficultyWithinScale ==
    outcome = "ok" =>
        /\ Plan.difficulty_score >= 10
        /\ Plan.difficulty_score <= 100
        /\ \A i \in 1..Len(Plan.sessions) :
              /\ Plan.sessions[i].difficulty_level >= 10
              /\ Plan.sessions[i].difficulty_level <= 100

CycleType(c) ==
    CASE c = 0 -> "strength"
      [] c = 1 -> "hiit"
      [] c = 2 -> "endurance"
      [] c = 3 -> "agility"

\* C3: training_type depends only on (week - 1) mod 4 (0 strength, 1 hiit,
\* 2 endurance, 3 agility); weeks w and w + 4 agree, and no sport changes it.
C3_TrainingTypeCycle ==
    outcome = "ok" =>
        /\ Plan.training_type = CycleType((week - 1) % 4)
        /\ GenerateTrainingPlan(profile, week + 4, history, now)[1]
              .training_type = Plan.training_type
        /\ \A s \in SportTypes :
              GenerateTrainingPlan([profile EXCEPT !.sport_type = s], week,
                                   history, now)[1].training_type
                 = Plan.training_type

C3_Witness ==
    /\ outcome = "ok"
    /\ week = 6
    /\ profile.sport_type = "tennis"
    /\ Plan.training_type = "hiit"

\* the catalog entry of a focus for a fitness level, or its 'all' bucket
CatalogEntry(type, level) ==
    IF type \in LevelTypes THEN exercise_db_level(type, level)
    ELSE exercise_db_all(type)

\* C4: every session's exercise list is the first up to 3 catalog entries of
\* the primary focus followed by the first up to 2 sport-specific entries,
\* never more than 6; football, beginner, week 1 gives the stated five.
C4_ExerciseSelection ==
    outcome = "ok" =>
        \A i \in 1..Len(Plan.sessions) :
            LET ex == Plan.sessions[i].exercises
                catalog == CatalogEntry(Plan.training_type,
                                        profile.fitness_level)
                sportList == exercise_db_sport(profile.sport_type)
                n == Min(3, Len(catalog))
                m == Min(2, Len(sportList))
            IN  /\ Len(ex) <= 6
                /\ Len(ex) = n + m
                /\ \A k \in 1..n : ex[k] = catalog[k]
                /\ \A k \in 1..m : ex[n + k] = sportList[k]
                /\ (/\ profile.sport_type = "football"
                    /\ profile.fitness_level = "beginner"
                    /\ week = 1)
                   => ex = <<"bodyweight_squats", "push_ups", "planks",
                             "40_yard_dash", "position_drills">>

C4_Witness ==
    /\ outcome = "ok"
    /\ profile.sport_type = "football"
    /\ profile.fitness_level = "beginner"
    /\ week = 1
    /\ Len(Plan.sessions) >= 1
    /\ Len(Plan.sessions[1].exercises) = 5

\* C5: the plan has exactly training_frequency sessions numbered
\* 1..training_frequency, each with warm-up 10, cool-down 10 and
\* main_duration = expected_duration - 20.
C5_SessionCount ==
    outcome = "ok" =>
        /\ Len(Plan.sessions) = profile.training_frequency
        /\ \A i \in 1..Len(Plan.sessions) :
              /\ Plan.sessions[i].session_number = i
              /\ Plan.sessions[i].warm_up_duration = 10
              /\ Plan.sessions[i].cool_down_duration = 10
              /\ Plan.sessions[i].main_duration = Plan.expected_duration - 20

C5_Witness ==
    /\ outcome = "ok"
    /\ profile.training_frequency = 5
    /\ Len(Plan.sessions) = 5
    /\ Plan.sessions[5].main_duration = 34

\* 5 * min(1 + 0.05 * (w - 1), 1.5), in hundredths
IntermediateDifficulty100(w) == 5 * Min(100 + 5 * (w - 1), 150)

\* C6 as stated: for intermediate the difficulty score equals
\* 5 * min(1 + 0.05 * (w - 1), 1.5) for every week.
C6_IntermediateDifficultyExact ==
    (outcome = "ok" /\ profile.fitness_level = "intermediate") =>
        Plan.difficulty_score * 10 = IntermediateDifficulty100(week)

\* C6 amended: for intermediate the difficulty score equals
\* 5 * min(1 + 0.05 * (w - 1), 1.5) rounded to one decimal (ties to even):
\* 5.0 at week 1 and 7.5 at week 21.
C6_IntermediateDifficultyRounded ==
    (outcome = "ok" /\ profile.fitness_level = "intermediate") =>
        /\ Plan.difficulty_score
              = RoundHalfEven(IntermediateDifficulty100(week), 10)
        /\ week = 1 => Plan.difficulty_score = 50
        /\ week = 21 => Plan.difficulty_score = 75

C6_Witness ==
    /\ outcome = "ok"
    /\ profile.fitness_level = "intermediate"
    /\ week = 21
    /\ Plan.difficulty_score = 75

(***************************************************************************)
(* Properties of the /generate endpoint                                    *)
(***************************************************************************)
Lacks(p) == ~ (RequiredKeys \subseteq p.keys)

\* C7: a call whose profile lacks sport_type, fitness_level or
\* training_frequency ends with an error and returns no plan, and a call that
\* ends with an error persists no TrainingPlan and no TrainingSession.
C7_MissingFieldNoPlan ==
    [][/\ (outcome' # "idle" /\ Lacks(profile'))
            => (outcome' = "error" /\ result' = <<>>)
       /\ (outcome' = "error" /\ result' = <<>>)
            => (dbPlans' = dbPlans /\ dbSessions' = dbSessions)]_vars

C7_Witness ==
    /\ outcome = "error"
    /\ Lacks(profile)
    /\ week # NullWeek
    /\ Len(dbPlans) = 1
    /\ Len(dbSessions) = 2

(***************************************************************************)
(* Properties of the baseline                                              *)
(***************************************************************************)
\* strictly better for the direction of the test type
StrictlyBetter(test_type, new, old) ==
    IF test_type \in time_based_metrics THEN new < old ELSE new > old

C9_TargetProgressMonotone ==
    (progress.called /\ baseline.current_best # None) =>
        /\ progress.value <= 10000
        /\ \A c \in Values :
            LET other == CalculateTargetProgress(
                            [baseline EXCEPT !.current_best = Some(c)],
                            progress.target_type)
                dOther == Abs(c - baseline.baseline_value)
                dHere == Abs(baseline.current_best[1]
                             - baseline.baseline_value)
            IN  /\ dOther <= dHere => other <= progress.value
                /\ dOther >= dHere => other >= progress.value

Swapped ==
    CalculateImprovement(improvement.previous, improvement.current,
                         improvement.test_type)

\* C11: for every test type t and all values a, b,
\* calculate_improvement(a, b, t) = -calculate_improvement(b, a, t).
C11_Antisymmetric ==
    improvement.called => improvement.value = - Swapped

\* C11 amended: for non-zero a and b the two percentages are each taken
\* relative to their own reference, so b * calculate_improvement(a, b, t)
\* and -a * calculate_improvement(b, a, t) agree up to the rounding of each
\* percentage (at most 0.005 each); with a reference of 0 the result is 0.
C11_WeightedAntisymmetric ==
    improvement.called =>
        LET a == improvement.current
            b == improvement.previous
        IN  /\ (a # 0 /\ b # 0) =>
                    2 * Abs(b * improvement.value + a * Swapped) <= a + b
            /\ b = 0 => improvement.value = 0
            /\ a = 0 => Swapped = 0

C11_Witness ==
    /\ improvement.called
    /\ improvement.test_type = "sprint_20m"
    /\ improvement.current = 1
    /\ improvement.previous = 2
    /\ improvement.value = 5000
    /\ Swapped = -10000

(***************************************************************************)
(* Properties of analyze_performance_trend                                 *)
(***************************************************************************)
TrendValues == [i \in 1..Len(trend.tests) |-> trend.tests[i].primary_value]

Chronological ==
    \A i \in 1..(Len(trend.tests) - 1) :
        trend.tests[i].test_date <= trend.tests[i + 1].test_date

StrictlyIncreasing ==
    \A i \in 1..(Len(TrendValues) - 1) : TrendValues[i] < TrendValues[i + 1]

StrictlyDecreasing ==
    \A i \in 1..(Len(TrendValues) - 1) : TrendValues[i] > TrendValues[i + 1]

AllEqual ==
    \A i \in 1..(Len(TrendValues) - 1) : TrendValues[i] = TrendValues[i + 1]

\* the least-squares slope over the indices 0..n-1 as the centred ratio
\* 2 * CentredNum / CentredDen, in sixteenths
CentredNum ==
    LET n == Len(TrendValues)
    IN  SumSeq([i \in 1..n |-> (2 * (i - 1) - (n - 1)) * TrendValues[i]])

CentredDen ==
    LET n == Len(TrendValues)
    IN  SumSeq([i \in 1..n |-> (2 * (i - 1) - (n - 1))
                                * (2 * (i - 1) - (n - 1))])

SlopeAboveTenth == 20 * CentredNum > 16 * CentredDen
SlopeBelowMinusTenth == 20 * CentredNum < - 16 * CentredDen

\* C12: for every history of length >= 2 ordered by test date the trend is
\* "improving" when the values are strictly increasing, "declining" when
\* they are strictly decreasing, and "stable" with slope 0 when all equal.
C12_TrendByMonotonicity ==
    (trend.called /\ Len(trend.tests) >= 2 /\ Chronological) =>
        /\ StrictlyIncreasing => trend.trend = "improving"
        /\ StrictlyDecreasing => trend.trend = "declining"
        /\ AllEqual => (trend.trend = "stable" /\ trend.slope = 0)

\* C12 amended: a strictly increasing history is "improving" when its
\* least-squares slope exceeds 0.1 and "stable" otherwise, a strictly
\* decreasing one is "declining" when its slope is below -0.1 and "stable"
\* otherwise, and a constant one is "stable" with slope 0.
C12_TrendBySlope ==
    (trend.called /\ Len(trend.tests) >= 2 /\ Chronological) =>
        /\ StrictlyIncreasing =>
             trend.trend = IF SlopeAboveTenth THEN "improving" ELSE "stable"
        /\ StrictlyDecreasing =>
             trend.trend = IF SlopeBelowMinusTenth THEN "declining"
                           ELSE "stable"
        /\ AllEqual => (trend.trend = "stable" /\ trend.slope = 0)

C12_Witness ==
    /\ trend.called
    /\ Len(trend.tests) = 3
    /\ Chronological
    /\ TrendValues = <<0, 1, 3>>
    /\ trend.trend = "stable"
    /\ trend.slope = 94

(***************************************************************************)
(* Properties of optimize_exercise_load                                    *)
(***************************************************************************)
Load == load.value[1]

LoadBase ==
    GetBaseExerciseParameters(load.exercise_type,
                              load.user_profile.fitness_level)

\* base sets * min(years / 10, 1.0) * age factor, in hundredths of a set
SetsProduct100 ==
    LET p == load.user_profile
        years == IF Has(p, "years_experience") THEN p.years_experience ELSE 1
    IN  LoadBase.sets * (IF years < 10 THEN years ELSE 10)
                      * (IF p.age < 30 THEN 10 ELSE 9)

\* C13: sets = max(1, round(baseSets * experienceFactor * ageFactor)), the
\* product being rounded to the nearest integer.
C13_SetsRounded ==
    load.outcome = "ok" =>
        Load.sets = Max(1, RoundHalfEven(SetsProduct100, 100))

\* C13 amended: sets = max(1, int(baseSets * experienceFactor * ageFactor)),
\* the product being truncated to its integer part.
C13_SetsTruncated ==
    load.outcome = "ok" =>
        /\ Load.sets >= 1
        /\ Load.sets = 1 => SetsProduct100 < 200
        /\ Load.sets > 1 =>
            /\ Load.sets * 100 <= SetsProduct100
            /\ SetsProduct100 < (Load.sets + 1) * 100

C13_Witness ==
    /\ load.outcome = "ok"
    /\ load.exercise_type = "plyometric"
    /\ load.user_profile.years_experience = 6
    /\ load.user_profile.age = 22
    /\ SetsProduct100 = 180
    /\ Load.sets = 1

Predicted == prediction.value[1]

\* the exact weekly rate of a metric as a fraction of a percent
ExactWeekly(metric) ==
    LET p == prediction.user_profile
        type == prediction.training_plan.training_type
        type_table == GetTrainingMultipliers(type)
        sport_table == GetSportFactors(p.sport_type)
        over30 == IF p.age > 30 THEN 9 ELSE 10
        over40 == IF p.age > 40 THEN 8 ELSE 10
        level == level_multipliers[p.fitness_level]
        type_multiplier ==
            IF metric \in DOMAIN type_table THEN type_table[metric] ELSE 10
        sport_factor ==
            IF metric \in DOMAIN sport_table THEN sport_table[metric] ELSE 10
    IN  Frac(base_rates[metric] * over30 * over40 * level * type_multiplier
                * sport_factor, 1000000)

\* the exact expected improvement of a metric as a fraction of a percent
ExactExpected(metric) ==
    LET p == prediction.user_profile
        years == IF Has(p, "years_experience") THEN p.years_experience ELSE 0
        experienced == IF years > 5 THEN 8 ELSE 10
        over30 == IF p.age > 30 THEN 9 ELSE 10
        weekly == ExactWeekly(metric)
    IN  Times(Times(Times(weekly, prediction.weeks_ahead, 1),
                    experienced, 10), over30, 10)

\* C15: each of the six metrics gets weekly rate = base rate * (0.9 if age >
\* 30) * (0.8 if age > 40) * level multiplier * training-type multiplier *
\* sport factor (the last two 1.0 when absent from the table) and expected
\* improvement = weekly rate * weeksAhead * (0.8 if experience > 5) * (0.9 if
\* age > 30), each up to the final rounding to two decimals.
C15_PredictionFormula ==
    prediction.outcome = "ok" =>
        \A metric \in Metrics :
            /\ DOMAIN Predicted = Metrics
            /\ Predicted[metric].weekly_rate \in Round2(ExactWeekly(metric))
            /\ Predicted[metric].expected_improvement_percentage
                    \in Round2(ExactExpected(metric))

C15_Witness ==
    /\ prediction.outcome = "ok"
    /\ prediction.user_profile.age = 45
    /\ prediction.user_profile.years_experience = 12
    /\ prediction.user_profile.sport_type = "football"
    /\ prediction.user_profile.fitness_level = "elite"
    /\ prediction.training_plan.training_type = "strength"
    /\ prediction.weeks_ahead = 4
    /\ Predicted["strength"].weekly_rate = 154
    /\ Predicted["strength"].expected_improvement_percentage = 445
    /\ Predicted["flexibility"].weekly_rate = 36

\* (0.7, plus 0.1 from 3 years of experience, minus 0.1 above age 35) times
\* the per-metric factor, clamped to [0.3, 0.95], in thousandths
ExactConfidence(metric) ==
    LET p == prediction.user_profile
        years == IF Has(p, "years_experience") THEN p.years_experience ELSE 0
        base == 7 + (IF years >= 3 THEN 1 ELSE 0)
                  - (IF p.age > 35 THEN 1 ELSE 0)
        product == base * metric_confidence[metric]
    IN  IF product < 300 THEN 300 ELSE IF product > 950 THEN 950 ELSE product

\* C16: for every profile and metric the confidence score equals (0.7, plus
\* 0.1 if experience >= 3, minus 0.1 if age > 35) times the per-metric
\* factor, clamped to [0.3, 0.95], and so lies within [0.3, 0.95].
C16_ConfidenceExact ==
    prediction.outcome = "ok" =>
        \A metric \in Metrics :
            /\ Predicted[metric].confidence_score * 10
                    = ExactConfidence(metric)
            /\ Predicted[metric].confidence_score >= 30
            /\ Predicted[metric].confidence_score <= 95

\* C16 amended: the confidence score is that clamped product rounded to two
\* decimals, and lies within [0.3, 0.95].
C16_ConfidenceRounded ==
    prediction.outcome = "ok" =>
        \A metric \in Metrics :
            /\ 2 * Abs(Predicted[metric].confidence_score * 10
                        - ExactConfidence(metric)) <= 10
            /\ Predicted[metric].confidence_score >= 30
            /\ Predicted[metric].confidence_score <= 95

C16_Witness ==
    /\ prediction.outcome = "ok"
    /\ prediction.user_profile.years_experience = 0
    /\ prediction.user_profile.age = 22
    /\ ExactConfidence("agility") = 455
    /\ Predicted["agility"].confidence_score = 45
    /\ Predicted["strength"].confidence_score = 56

(***************************************************************************)
(* Properties of the history handed to optimize_exercise_load              *)
(***************************************************************************)
Chron == SortedByDate(dbTests)

Newest == Chron[Len(Chron)].primary_value

TwoEarlier == Chron[Len(Chron) - 2].primary_value

\* C17: with the history supplied most recent first, as the optimize-load
\* endpoint supplies it, an athlete whose newest value is higher than the
\* value two tests earlier gets a positive trend and performance factor 1.1.
C17_NewestHigherRaisesLoad ==
    (resp = 200 /\ load.outcome = "ok" /\ Len(dbTests) >= 3) =>
        ((TwoEarlier > 0 /\ Newest > TwoEarlier) => Load.load_factor = 11)

(***************************************************************************)
(* Frame and fallback properties of the three engine calls                 *)
(***************************************************************************)
\* C18: generate_training_plan, predict_performance_improvement and
\* optimize_exercise_load leave their arguments as they were, whether the
\* call returns or raises.
C18_ArgumentsUnchanged ==
    [][/\ profile' = profile
       /\ week' = week
       /\ history' = history
       /\ load.exercise_type # "" =>
            /\ load'.exercise_type = load.exercise_type
            /\ load'.user_profile = load.user_profile
            /\ load'.performance_history = load.performance_history
       /\ prediction.user_profile # NoProfile =>
            /\ prediction'.user_profile = prediction.user_profile
            /\ prediction'.training_plan = prediction.training_plan
            /\ prediction'.weeks_ahead = prediction.weeks_ahead]_vars

C18_Witness ==
    /\ load.called
    /\ load.outcome = "error"
    /\ ~ Has(load.user_profile, "age")
    /\ Has(load.user_profile, "fitness_level")
    /\ Len(load.performance_history) = 3

KnownExercises == {"strength", "power", "endurance"}

\* C19: an exercise type absent from the parameter table gets the default
\* entry (3 sets, 10 fixed reps, intensity 70, rest 90) and a sport absent
\* from the sport tables gets no sport-specific exercises and sport factors
\* of 1.0; neither makes the call fail.
C19_UnknownFallsBack ==
    /\ (/\ load.called
        /\ load.exercise_type \notin KnownExercises
        /\ {"fitness_level", "age"} \subseteq load.user_profile.keys) =>
            /\ load.outcome = "ok"
            /\ Load.rest_time = 90
            /\ Load.reps = << (10 * Load.load_factor) \div 10 >>
            /\ Load.intensity =
                 (IF Load.load_factor = 9 THEN "moderate" ELSE "high")
            /\ LET p == load.user_profile
                   years == IF Has(p, "years_experience")
                            THEN p.years_experience ELSE 1
                   product == 3 * (IF years < 10 THEN years ELSE 10)
                                * (IF p.age < 30 THEN 10 ELSE 9)
               IN  Load.sets = (IF product < 100 THEN 1 ELSE product \div 100)
    /\ (/\ outcome # "idle"
        /\ profile.sport_type \notin SportSpecificSports
        /\ RequiredKeys \subseteq profile.keys
        /\ week # NullWeek) =>
            /\ outcome = "ok"
            /\ \A i \in 1..Len(Plan.sessions) :
                LET catalog == CatalogEntry(Plan.training_type,
                                            profile.fitness_level)
                IN  Plan.sessions[i].exercises
                        = SubSeq(catalog, 1, Min(3, Len(catalog)))
    /\ (/\ prediction.called
        /\ prediction.user_profile.sport_type \notin SportSpecificSports
        /\ {"age", "fitness_level", "sport_type"}
                \subseteq prediction.user_profile.keys
        /\ Has(prediction.training_plan, "training_type")) =>
            /\ prediction.outcome = "ok"
            /\ \A metric \in Metrics :
                LET p == prediction.user_profile
                    type_table ==
                        GetTrainingMultipliers(
                            prediction.training_plan.training_type)
                    multiplier == IF metric \in DOMAIN type_table
                                  THEN type_table[metric] ELSE 10
                IN  Predicted[metric].weekly_rate \in
                        Round2(Times(GetBaseImprovementRate(
                                        p.age, p.fitness_level, metric),
                                     multiplier, 10))

C19_Witness ==
    /\ load.called
    /\ load.outcome = "ok"
    /\ load.exercise_type = "plyometric"
    /\ load.user_profile.years_experience = 12
    /\ load.user_profile.age = 22
    /\ Load.sets = 3
    /\ Load.reps = <<11>>
    /\ Load.rest_time = 90

(***************************************************************************)
(* Properties of recording tests                                           *)
(***************************************************************************)
RecordedValues(test_type) ==
    {dbTests[i].primary_value :
        i \in {j \in 1..Len(dbTests) : dbTests[j].test_type = test_type}}

\* the best of a non-empty set of values by the direction of the test type
BestValue(values, test_type) ==
    IF test_type \in time_based_metrics
    THEN CHOOSE v \in values : \A u \in values : v <= u
    ELSE CHOOSE v \in values : \A u \in values : v >= u

\* C20: after any sequence of recorded tests of a key, the baseline's
\* current_best is the best value, by the test type's direction, among all
\* values recorded for the key, the first (baseline) value included.
C20_CurrentBestIsBest ==
    \A i \in 1..Len(dbBaselines) :
        LET b == dbBaselines[i]
        IN  Cardinality(RecordedValues(b.test_type)) >= 2 =>
                b.current_best
                    = Some(BestValue(RecordedValues(b.test_type),
                                     b.test_type))

\* C21: in every reachable state there is at most one baseline per key, also
\* when two record-test requests of a key not yet recorded interleave between
\* the lookup of the baseline and its insertion.
C21_OneBaselinePerKey ==
    \A i, j \in 1..Len(dbBaselines) :
        dbBaselines[i].test_type = dbBaselines[j].test_type => i = j

\* the first test recorded for the key of a baseline
FirstTest(rows, b) == TestsOfKey(rows, b.test_type)[1]

\* C22: a baseline's baseline_value is the value of the first test recorded
\* for its key and no later step changes it, neither a further test of the key
\* nor an update of its targets; the first record's improvement_from_baseline
\* is 0.
C22_BaselineValueFixed ==
    [][/\ \A i \in 1..Len(dbBaselines) :
            /\ i <= Len(dbBaselines')
            /\ dbBaselines'[i].test_type = dbBaselines[i].test_type
            /\ dbBaselines'[i].baseline_value = dbBaselines[i].baseline_value
       /\ \A i \in 1..Len(dbBaselines') :
            /\ TestsOfKey(dbTests', dbBaselines'[i].test_type) # <<>>
            /\ dbBaselines'[i].baseline_value
                    = FirstTest(dbTests', dbBaselines'[i]).primary_value
            /\ FirstTest(dbTests', dbBaselines'[i]).improvement_from_baseline
                    = 0]_vars

\* a baseline with a non-zero value, a further test of its key recorded and
\* its targets set
C22_Witness ==
    \E i \in 1..Len(dbBaselines) :
        /\ dbBaselines[i].baseline_value = 1
        /\ dbBaselines[i].tests_count >= 1
        /\ dbBaselines[i].current_best = Some(2)
        /\ dbBaselines[i].long_term_target # None

\* C23: improvement against a baseline whose value is 0 is reported as 0 and
\* never raises, so recording a test for a key whose first recorded value was
\* 0 succeeds and returns the baseline.
C23_ZeroBaselineSucceeds ==
    [][\A i \in 1..Len(dbBaselines) :
            /\ dbBaselines[i].baseline_value = 0
            /\ dbBaselines'[i].tests_count > dbBaselines[i].tests_count
            => /\ CalculateCurrentImprovement(dbBaselines'[i]) = Some(0)
               /\ resp' = 201]_vars

(***************************************************************************)
(* Properties of the report analytics                                      *)
(***************************************************************************)
\* C24: the report analytics return a neutral value instead of failing:
\* analyze_training_effectiveness for completed sessions that all lack a
\* rating, and analyze_metric_improvements for a metric none of whose tests has
\* a non-zero improvement_from_last_test, complete without an error.
C24_DegenerateWindowsComplete ==
    report.called => report.effectiveness # None /\ report.metrics # None

(***************************************************************************)
(* Properties of the direction of improvement                              *)
(***************************************************************************)
\* C25: calculate_improvement and update_current_best treat the same test
\* types as lower-is-better: a new value that calculate_improvement rates as a
\* strictly positive improvement over the current best becomes the new best,
\* and a value it rates as negative does not.
C25_DirectionsAgree ==
    [][/\ baseline.current_best # None
       /\ baseline'.tests_count = baseline.tests_count + 1
       => LET rated == CalculateImprovement(update'.new_value,
                                            baseline.current_best[1],
                                            baseline.test_type)
          IN  /\ rated > 0
                    => baseline'.current_best = Some(update'.new_value)
              /\ rated < 0
                    => baseline'.current_best = baseline.current_best]_vars

(***************************************************************************)
(* Properties of training sessions                                         *)
(***************************************************************************)
\* C26: a completed session stays completed under start and complete
\* requests, and a start request on a completed session is rejected with an
\* error and leaves the session, its actual_start_time included, unchanged.
C26_CompletedStays ==
    [][\A i \in 1..Len(tracking) :
            tracking[i].is_completed
            => /\ tracking'[i].is_completed
               /\ tracking'[i].actual_start_time
                        = tracking[i].actual_start_time
               /\ lastRequest' = [kind |-> "start", session_id |-> i]
                    /\ now' = now
                    => resp' = 400 /\ tracking' = tracking]_vars

\* a start request on a completed session that had been started was refused
C26_Witness ==
    /\ lastRequest.kind = "start"
    /\ lastRequest.session_id \in 1..Len(tracking)
    /\ tracking[lastRequest.session_id].is_completed
    /\ tracking[lastRequest.session_id].actual_start_time # None
    /\ resp = 400

\* C27 as stated: a completed session has been started, with
\* actual_start_time not later than actual_end_time and an actual_duration
\* that is set and non-negative.
C27_CompletedWasStarted ==
    \A i \in 1..Len(tracking) :
        tracking[i].is_completed
        => /\ tracking[i].actual_start_time # None
           /\ tracking[i].actual_end_time # None
           /\ tracking[i].actual_start_time[1] <= tracking[i].actual_end_time[1]
           /\ tracking[i].actual_duration # None
           /\ tracking[i].actual_duration[1] >= 0

\* C27 as the code has it: a completed session has an actual_end_time; when
\* it was started before being completed, actual_start_time is not later than
\* actual_end_time and actual_duration is set and non-negative; a session
\* completed without a start has neither a start time nor a duration.
C27_CompletedHasEnd ==
    \A i \in 1..Len(tracking) :
        tracking[i].is_completed
        => /\ tracking[i].actual_end_time # None
           /\ IF tracking[i].actual_start_time # None
              THEN /\ tracking[i].actual_start_time[1]
                            <= tracking[i].actual_end_time[1]
                   /\ tracking[i].actual_duration # None
                   /\ tracking[i].actual_duration[1] >= 0
              ELSE tracking[i].actual_duration = None

\* one session started and completed a minute later, another completed
\* without having been started
C27_Witness ==
    \E i, j \in 1..Len(tracking) :
        /\ tracking[i].is_completed
        /\ tracking[i].actual_start_time # None
        /\ tracking[i].actual_duration = Some(1)
        /\ tracking[j].is_completed
        /\ tracking[j].actual_start_time = None

(***************************************************************************)
(* Properties of failed record-test requests                               *)
(***************************************************************************)
\* C28: a record-test request that ends in an error leaves the stored state
\* unchanged: no performance row is added, no baseline is created and no
\* baseline's current_best or tests_count changes.
C28_ErrorLeavesStateUnchanged ==
    [][resp' >= 400
       => /\ dbTests' = dbTests
          /\ Len(dbBaselines') = Len(dbBaselines)
          /\ \A i \in 1..Len(dbBaselines) :
                /\ dbBaselines'[i].current_best = dbBaselines[i].current_best
                /\ dbBaselines'[i].tests_count
                        = dbBaselines[i].tests_count]_vars

(***************************************************************************)
(* Properties of the optimised reps and of the load factor                 *)
(***************************************************************************)
\* n is the integer part of base * load_factor, the factor being in tenths
Scaled(n, base) ==
    /\ n * 10 <= base * Load.load_factor
    /\ base * Load.load_factor < (n + 1) * 10

\* C29: the reps returned are either a fixed count >= 1, the base count
\* scaled by the performance factor, or a range min-max with min >= 1 and
\* max >= min + 2, both ends scaled by the performance factor.
C29_RepsScaled ==
    load.outcome = "ok" =>
        IF LoadBase.reps_type = "range"
        THEN /\ Len(Load.reps) = 2
             /\ Load.reps[1] >= 1
             /\ Load.reps[2] >= Load.reps[1] + 2
             /\ Load.reps[1] > 1 => Scaled(Load.reps[1], LoadBase.reps_min)
             /\ Load.reps[2] > Load.reps[1] + 2
                    => Scaled(Load.reps[2], LoadBase.reps_max)
        ELSE /\ Len(Load.reps) = 1
             /\ Load.reps[1] >= 1
             /\ Load.reps[1] > 1 => Scaled(Load.reps[1], LoadBase.reps)

\* the range 3-5 of an elite power exercise scaled by 0.9 to 2-4
C29_Witness ==
    /\ load.outcome = "ok"
    /\ LoadBase.reps_type = "range"
    /\ LoadBase.reps_min = 3
    /\ Load.load_factor = 9
    /\ Load.reps = <<2, 4>>

\* the oldest and the newest of the last three tests of the call
TrailingFirst ==
    LET h == load.performance_history
    IN  h[Max(1, Len(h) - 2)].primary_value

TrailingLast ==
    LET h == load.performance_history
    IN  h[Len(h)].primary_value

NoTrailingTrend ==
    Len(load.performance_history) < 2 \/ TrailingFirst = 0

\* the factor by the exact two-point change (test values are positive)
FactorByTrend ==
    IF NoTrailingTrend THEN 10
    ELSE IF TrailingLast > TrailingFirst THEN 11
    ELSE IF (TrailingLast - TrailingFirst) * 100 < -5 * TrailingFirst THEN 9
    ELSE 10

\* the factor by the change in hundredths of a percent, rounded
FactorByRoundedTrend ==
    IF NoTrailingTrend THEN 10
    ELSE LET change == RoundHalfEven((TrailingLast - TrailingFirst) * 10000,
                                     TrailingFirst)
         IN  IF change >= 1 THEN 11
             ELSE IF change <= -501 THEN 9
             ELSE 10

GuidanceMatchesFactor ==
    /\ Load.progression_notes[1] = "increase" <=> Load.load_factor = 11
    /\ Load.progression_notes[1] = "reduce" <=> Load.load_factor = 9
    /\ Load.progression_notes[1] = "maintain" <=> Load.load_factor = 10

\* C30 as stated: the load_factor is 1.1 when the trailing trend is
\* positive, 0.9 when the trend is below -5 percent and 1.0 otherwise (no
\* history, fewer than 2 records, a first value of 0); the guidance says
\* increase exactly when the factor is 1.1, reduce exactly when it is 0.9 and
\* maintain exactly when it is 1.0.
C30_FactorByTrend ==
    load.outcome = "ok" =>
        /\ Load.load_factor = FactorByTrend
        /\ GuidanceMatchesFactor

\* C30 amended: the load_factor is 1.1 when the trailing trend rounded to
\* two decimals is positive, 0.9 when the rounded trend is below -5 percent
\* and 1.0 otherwise; the guidance matches the factor exactly.
C30_FactorByRoundedTrend ==
    load.outcome = "ok" =>
        /\ Load.load_factor \in {9, 10, 11}
        /\ Load.load_factor = FactorByRoundedTrend
        /\ GuidanceMatchesFactor

\* a rise of 0.0025 percent, rounded to 0.0, keeps the load
C30_Witness ==
    /\ load.outcome = "ok"
    /\ ~ NoTrailingTrend
    /\ TrailingLast > TrailingFirst
    /\ Load.load_factor = 10
    /\ Load.progression_notes[1] = "maintain"

====
